---- MODULE Spec2Model ----
(***************************************************************************)
(* Model of the quiz-solver solve loop (src/app/solver.py) together with   *)
(* the collaborators it drives: backend window selection of the reasoning  *)
(* engine (src/app/llm.py), the answer submitter and its payload size gate *)
(* (src/app/submitter.py) and the teardown of the four collaborators.      *)
(*                                                                         *)
(* One chain (QuizSolver.solve_chain) is a sequential coroutine; pc is its *)
(* position.  Every external outcome (a page fetch raising, a backend      *)
(* failing, a verdict of the scoring endpoint, the time a step takes) is   *)
(* an input drawn with \E from a small set.                                *)
(*                                                                         *)
(* Beside the chain (specification Spec) the module holds smaller          *)
(* specifications over their own variables: answer coercion (SpecCoerce),  *)
(* the request handler and its bookkeeping of running chains (SpecServer), *)
(* the parser's classification, submit target and resource extraction      *)
(* (SpecParser), the heuristic fallback of the reasoning engine on a JSON   *)
(* resource (SpecSum), the way from a page's markup through the two        *)
(* acquisition paths to the decoded hidden payloads and the API headers    *)
(* (SpecPage), the browsing session of the primary acquirer (SpecBrowser), *)
(* the reading of a backend's reply, its confidence and the validation     *)
(* call (SpecLlm) and the resource fetcher (SpecFetcher).  A specification *)
(* leaves the variables of the others at their idle values.  SpecLive is   *)
(* the chain under fairness, for termination.                              *)
(***************************************************************************)
EXTENDS Integers, Sequences, FiniteSets, TLC

\* ---------------------------------------------------------------- bounds
MaxUrls == 2
MaxBackends == 3
MaxResources == 2
MaxClock == 182

\* ------------------------------------------------------ program constants
MAX_QUIZ_ATTEMPTS == 3
RETRY_DELAY == 2
TOTAL_TIMEOUT == 180
MAX_PAYLOAD == 1000000
STR_HEADER == 49
RETRY_ATTEMPTS == 3
RETRY_FIRST_DELAY == 1
RETRY_BACKOFF == 2
HTTP_OK == 200

NoUrl == 0
Urls == 1..MaxUrls
\* A submission endpoint that is no page of the chain.
SubmitEndpoint == MaxUrls + 1
ResourceIds == 1..MaxResources
Collaborators == {"browser", "fallback_browser", "fetcher", "submitter"}

Range(f) == {f[i] : i \in DOMAIN f}
Min(a, b) == IF a < b THEN a ELSE b
Max(a, b) == IF a > b THEN a ELSE b

\* Seconds a suspended step may take: none, or as long as a retry delay.
Durations == {0, RETRY_DELAY}
Advance(t, d) == Min(t + d, MaxClock)

\* Lengths (in bytes) of the JSON text of a submission payload.
PayloadLens == {MAX_PAYLOAD - STR_HEADER - 1, MAX_PAYLOAD - STR_HEADER, MAX_PAYLOAD}

\* Resource lists a parsed page may carry: duplicate-free, its URLs named
\* 1, 2, ... in list order.
ResourceLists == {[i \in 1..n |-> i] : n \in 0..MaxResources}

VARIABLES
  pc,            \* position of solve_chain
  current_url,   \* QuizSolver.current_url (NoUrl models None)
  start_time,    \* QuizSolver.start_time
  now,           \* time.time()
  nModels,       \* len(LLMEngine.models)
  setup_done,    \* BrowserManager._setup_done
  session,       \* which aiohttp sessions exist (fallback, fetcher, submitter)
  page,          \* how the page of this visit was acquired
  resources,     \* ParsedQuestion.resources of this visit
  submit_url,    \* ParsedQuestion.submit_url of this visit
  headers,       \* headers discovered for this visit
  resIdx,        \* position of the for loop of _process_resources
  context,       \* context_parts of this visit
  attempt,       \* attempt index of _solve_with_retries
  reasoning,     \* outcome of the latest reason_about_question call
  submission,    \* the latest submission: payload, POSTs made, response met
  last_result,   \* last_result of _solve_with_retries
  visit,         \* what has been done for the page of this visit
  closed,        \* close() invocations made by _cleanup, per collaborator
  halt           \* why the loop ended

chainVars == <<pc, current_url, start_time, now, nModels, setup_done, session,
               page, resources, submit_url, headers, resIdx, context, attempt,
               reasoning, submission, last_result, visit, closed, halt>>

\* Answer coercion (SpecCoerce)
VARIABLES
  answer,          \* the candidate answer handed to _enforce_answer_type
  expected_type,   \* the question's expected kind
  int_is_integer,  \* whether the interpreter's int has is_integer (3.12 on)
  enforced,        \* results of applying _enforce_answer_type once, twice
  final_answer     \* the answer _submit_answer puts into the payload

coerceVars == <<answer, expected_type, int_is_integer, enforced, final_answer>>

\* The request handler and its bookkeeping (SpecServer)
VARIABLES
  gemini_api_key,      \* settings.GEMINI_API_KEY
  wall_clock,          \* time.time() of the server
  request_timestamps,  \* main.request_timestamps: email -> start time
  tasks,               \* the background tasks (chains) that are running
  handled,             \* requests handled so far
  last_request         \* the request handled last, its response, chains it started

serverVars == <<gemini_api_key, wall_clock, request_timestamps, tasks, handled,
                last_request>>

\* The parser (SpecParser)
VARIABLES
  full_text,  \* the page text QuizParser.parse_page_content works on
  question    \* the ParsedQuestion fields extracted from it

parserVars == <<full_text, question>>

\* The heuristic fallback on a JSON resource (SpecSum)
VARIABLES
  json_resource,  \* the JSON resource of the question
  llm_question,   \* LLMReasoningRequest.question
  llm_context,    \* LLMReasoningRequest.context, as its tokens
  llm_answer      \* the answer of the reasoning call, enforced

sumVars == <<json_resource, llm_question, llm_context, llm_answer>>

\* Acquisition, hidden payloads and API headers (SpecPage)
VARIABLES
  markup,        \* the page as served: its body text and inline script blocks
  page_content,  \* the dict get_page_content returned
  instructions,  \* what extract_base64_content decoded from its script text
  api_text,      \* the instruction text handed to extract_api_headers
  api_headers    \* the headers extract_api_headers returned

pageVars == <<markup, page_content, instructions, api_text, api_headers>>

\* The primary acquirer (SpecBrowser)
VARIABLES
  manager,      \* BrowserManager: which handles are set, and _setup_done
  acquisition,  \* what the latest get_page_content call did and gave
  launches,     \* page fetches made, browsers launched, browsers released
  torn_down     \* whether _cleanup has closed the manager

browserVars == <<manager, acquisition, launches, torn_down>>

\* The reasoning engine's response handling (SpecLlm)
VARIABLES
  llm_call,      \* one reason_about_question call: the request and what the backend did
  llm_response,  \* the LLMReasoningResponse the call returned
  llm_final,     \* the value _submit_answer puts into the payload for that response
  validation     \* one validate_answer call and its result

llmVars == <<llm_call, llm_response, llm_final, validation>>

\* The resource fetcher (SpecFetcher)
VARIABLES
  fetch_call,    \* one fetch_resource call: the response met and the URL's extension
  fetch_result,  \* what the call returned, or that it raised
  fetch_session  \* whether ResourceFetcher.session is set

fetcherVars == <<fetch_call, fetch_result, fetch_session>>

\* The variables a specification leaves alone.
besideChain == <<coerceVars, serverVars, parserVars, sumVars, pageVars, browserVars, llmVars, fetcherVars>>
besideCoerce == <<chainVars, serverVars, parserVars, sumVars, pageVars, browserVars, llmVars, fetcherVars>>
besideServer == <<chainVars, coerceVars, parserVars, sumVars, pageVars, browserVars, llmVars, fetcherVars>>
besideParser == <<chainVars, coerceVars, serverVars, sumVars, pageVars, browserVars, llmVars, fetcherVars>>
besideSum == <<chainVars, coerceVars, serverVars, parserVars, pageVars, browserVars, llmVars, fetcherVars>>
besidePage == <<chainVars, coerceVars, serverVars, parserVars, sumVars, browserVars, llmVars, fetcherVars>>
besideBrowser == <<chainVars, coerceVars, serverVars, parserVars, sumVars, pageVars, llmVars, fetcherVars>>
besideLlm == <<chainVars, coerceVars, serverVars, parserVars, sumVars, pageVars, browserVars, fetcherVars>>
besideFetcher == <<chainVars, coerceVars, serverVars, parserVars, sumVars, pageVars, browserVars, llmVars>>

vars == <<chainVars, coerceVars, serverVars, parserVars, sumVars, pageVars, browserVars, llmVars, fetcherVars>>

NoResult == [correct |-> FALSE, url |-> NoUrl]
NoResponse == [kind |-> "none"]
NoSubmission == [len |-> 0, posted |-> FALSE, reason |-> "none", posts |-> 0,
                 url |-> NoUrl, target |-> NoUrl, resp |-> NoResponse,
                 answer |-> -1]
NoReasoning == [calls |-> <<>>, result |-> "none"]
\* A Python value: its type and the text str() gives for it (for a str, the
\* string itself).
Val(t, s) == [t |-> t, s |-> s]
NoValue == Val("NoneType", "None")
\* A dict with no entry.
EmptyMap == [e \in {} |-> 0]
NoRequest == [email |-> "", secret |-> "", status |-> 0, started |-> 0]
NoText == [phrases |-> {}, mentions |-> <<>>]
NoQuestion == [expected_type |-> "none", submit_url |-> "none", resources |-> <<>>]
NoResource == [url_numbers |-> <<>>, values |-> <<>>]
\* Record of one page visit: calls of the primary path and whether it raised,
\* calls of the fallback path by the acquisition step and by header
\* discovery and whether the latter raised (kept while _process_resources
\* runs, where the failure is caught), questions extracted, fetches per
\* resource and the resources whose fetch failed, the attempt indices of the
\* reasoning calls and of the submissions, the reasoning calls made after a
\* correct verdict, and the delays slept between the attempts.
NewVisit == [primary |-> 0, primaryRaised |-> FALSE, fallback |-> 0, header |-> 0,
             headerRaised |-> FALSE, parsed |-> 0,
             fetched |-> [r \in ResourceIds |-> 0], failed |-> {},
             reasons |-> <<>>, submits |-> <<>>, afterCorrect |-> 0,
             sleeps |-> <<>>]

\* -------------------------------------------------------- pure functions

\* QuizSolver._is_timed_out
is_timed_out_backwards(t, s) == s - t > TOTAL_TIMEOUT
is_timed_out_never(t, s) == FALSE
is_timed_out(t, s) == t - s > TOTAL_TIMEOUT

\* Python slice models[lo:hi] of a list of n items, as the sequence of the
\* 0-based indices it selects.
Slice(lo, hi, n) ==
  [i \in 1..Max(0, Min(hi, n) - Min(lo, n)) |-> Min(lo, n) + i - 1]

\* LLMEngine.reason_about_question: models_to_try for an attempt
models_to_try_from_start(a, n) ==
  IF a = 0 THEN Slice(0, 2, n)
  ELSE IF a = 1 THEN Slice(1, 3, n)
  ELSE Slice(0, n, n)
models_to_try_same(a, n) == Slice(0, 2, n)
models_to_try(a, n) ==
  IF a = 0 THEN Slice(0, 2, n)
  ELSE IF a = 1 THEN Slice(1, 3, n)
  ELSE Slice(2, n, n)

\* LLMEngine.reason_about_question: the for loop over models_to_try.  fails
\* is the set of backends whose call (or the parsing of whose response)
\* raises.  The result is "backend" when a backend answered, "fallback" when
\* the last backend of the window failed, "none" when the loop ran out
\* without returning (the function then returns None).
RECURSIVE TryModels(_, _, _, _)
TryModels(w, fails, i, acc) ==
  IF i > Len(w) THEN [calls |-> acc, result |-> "none"]
  ELSE IF w[i] \notin fails
    THEN [calls |-> Append(acc, [backend |-> w[i], ok |-> TRUE]),
          result |-> "backend"]
  ELSE IF i = Len(w)
    THEN [calls |-> Append(acc, [backend |-> w[i], ok |-> FALSE]),
          result |-> "fallback"]
  ELSE TryModels(w, fails, i + 1, Append(acc, [backend |-> w[i], ok |-> FALSE]))

reason_about_question(a, n, fails) == TryModels(models_to_try(a, n), fails, 1, <<>>)

\* AnswerSubmitter._get_payload_size: sys.getsizeof of the JSON text, which is
\* the size of the str object (header plus one byte per ASCII character).
get_payload_size(len) == STR_HEADER + len

\* AnswerSubmitter._validate_payload_size
validate_payload_size_off(len) == TRUE
validate_payload_size(len) == get_payload_size(len) < MAX_PAYLOAD

\* Body texts of a response that is not JSON, and those of them whose
\* lowercased text contains "correct".
TextBodies == {"Correct!", "Incorrect", "Wrong"}
ContainsCorrect == {"Correct!", "Incorrect"}

\* Statuses other than 200 the endpoint answers with.
ErrorStatuses == {403, 500}

\* What one POST to the submission endpoint meets: a transport error, or a
\* response with a status and a body.  A body of status 200 is the JSON text
\* of a verdict (its fields are given), JSON text that is no verdict object
\* ("other_json"), or text that is not JSON.
Responses ==
  {[kind |-> "error"]} \cup
  {[kind |-> "json", status |-> HTTP_OK, correct |-> c, url |-> u] :
     c \in BOOLEAN, u \in {NoUrl} \cup Urls} \cup
  {[kind |-> "other_json", status |-> HTTP_OK]} \cup
  {[kind |-> "text", status |-> HTTP_OK, body |-> b] : b \in TextBodies} \cup
  {[kind |-> "http", status |-> st] : st \in ErrorStatuses}

\* AnswerSubmitter.submit_answer, the decorated body: whether the payload is
\* POSTed and the verdict returned for what the POST meets.  The reason is
\* "size" for the size-limit text, "json" for the reason field of the body,
\* "text" for the body text, "http" for the text made of the status code and
\* the body text, "error" for the text of the exception caught.
Verdict(c, u, why) == [posted |-> why # "size", correct |-> c, url |-> u, reason |-> why]

submit_answer_exact(len, resp) ==
  IF ~validate_payload_size(len) THEN Verdict(FALSE, NoUrl, "size")
  ELSE IF resp.kind = "error" THEN Verdict(FALSE, NoUrl, "error")
  ELSE IF resp.status = HTTP_OK THEN
    IF resp.kind = "json" THEN Verdict(resp.correct, resp.url, "json")
    ELSE IF resp.kind = "other_json" THEN Verdict(FALSE, NoUrl, "error")
    ELSE Verdict(resp.body = "Correct!", NoUrl, "text")
  ELSE Verdict(FALSE, NoUrl, "http")
submit_answer(len, resp) ==
  IF ~validate_payload_size(len) THEN Verdict(FALSE, NoUrl, "size")
  ELSE IF resp.kind = "error" THEN Verdict(FALSE, NoUrl, "error")
  ELSE IF resp.status = HTTP_OK THEN
    IF resp.kind = "json" THEN Verdict(resp.correct, resp.url, "json")
    ELSE IF resp.kind = "other_json" THEN Verdict(FALSE, NoUrl, "error")
    ELSE Verdict(resp.body \in ContainsCorrect, NoUrl, "text")
  ELSE Verdict(FALSE, NoUrl, "http")

\* The body of submit_answer raises only where it creates its session: every
\* exception from the payload on, a transport error of the POST included, is
\* caught inside and turned into a verdict.
body_raises(session_fails, resp) == session_fails

\* utils.async_retry: the wrapper around submit_answer.  raises[i] tells
\* whether call i of the body raises; the result is the number of calls
\* made, the waits between them and whether the last exception is re-raised.
RECURSIVE async_retry(_, _, _, _)
async_retry(raises, i, delay, waits) ==
  IF ~raises[i] THEN [calls |-> i, waits |-> waits, raised |-> FALSE]
  ELSE IF i < RETRY_ATTEMPTS
    THEN async_retry(raises, i + 1, delay * RETRY_BACKOFF, Append(waits, delay))
  ELSE [calls |-> i, waits |-> waits, raised |-> TRUE]

\* The concatenation of a sequence of sequences.
RECURSIVE Flatten(_)
Flatten(blocks) == IF blocks = <<>> THEN <<>> ELSE Head(blocks) \o Flatten(Tail(blocks))

RECURSIVE SumSeq(_)
SumSeq(q) == IF q = <<>> THEN 0 ELSE Head(q) + SumSeq(Tail(q))

\* The submit target QuizParser extracts from a page: the pages with an odd
\* number name a submission endpoint of their own, the others name none and
\* the target falls back to the page's URL.
page_submit_url(u) == IF u % 2 = 1 THEN SubmitEndpoint ELSE u

\* _submit_answer: the url field of the payload, and the destination of the
\* POST, for the page being solved and the question's extracted submit target.
payload_url_from_target(cur, target) == target
payload_url(cur, target) == cur
post_destination(cur, target) == target

\* ------------------------------------------------------------------ Init

\* QuizSolver.__init__: a chain as constructed, but for its position, the
\* clock and the number of backends loaded.
Constructed ==
  /\ current_url = 1
  /\ start_time = 0
  /\ setup_done = FALSE
  /\ session = [c \in Collaborators \ {"browser"} |-> FALSE]
  /\ page = "none"
  /\ resources = <<>>
  /\ submit_url = NoUrl
  /\ headers = "empty"
  /\ resIdx = 0
  /\ context = <<>>
  /\ attempt = 0
  /\ reasoning = NoReasoning
  /\ submission = NoSubmission
  /\ last_result = NoResult
  /\ visit = NewVisit
  /\ closed = [c \in Collaborators |-> 0]
  /\ halt = "none"

\* No chain runs (the specifications beside the chain).
IdleChain ==
  /\ pc = "idle"
  /\ now = 0
  /\ nModels = MaxBackends
  /\ Constructed

\* No answer is being coerced.
IdleCoerce ==
  /\ answer = NoValue
  /\ expected_type = "STRING"
  /\ int_is_integer = FALSE
  /\ enforced = <<>>
  /\ final_answer = NoValue

\* The server has handled no request.
IdleServer ==
  /\ gemini_api_key = ""
  /\ wall_clock = 0
  /\ request_timestamps = EmptyMap
  /\ tasks = {}
  /\ handled = 0
  /\ last_request = NoRequest

\* No page is being parsed.
IdleParser ==
  /\ full_text = NoText
  /\ question = NoQuestion

\* No reasoning call is made on a JSON resource.
IdleSum ==
  /\ json_resource = NoResource
  /\ llm_question = ""
  /\ llm_context = <<>>
  /\ llm_answer = NoValue

\* No page is acquired and no header text is scanned.
IdlePage ==
  /\ markup = [text |-> "", scripts |-> <<>>]
  /\ page_content = [path |-> "none", visible_text |-> <<>>, scripts |-> <<>>]
  /\ instructions = [done |-> FALSE, decoded |-> <<>>, heading |-> FALSE]
  /\ api_text = <<>>
  /\ api_headers = [done |-> FALSE, headers |-> EmptyMap]

IdleBrowser ==
  /\ manager = [playwright |-> FALSE, browser |-> FALSE, context |-> FALSE,
                setup_done |-> FALSE]
  /\ acquisition = [outcome |-> "none", was_setup |-> FALSE, opened |-> 0, closed |-> 0,
                    timed_out |-> FALSE, salvage_ok |-> FALSE,
                    content |-> [html |-> "", visible_text |-> "", scripts |-> ""]]
  /\ launches = [fetches |-> 0, browsers |-> 0, released |-> 0]
  /\ torn_down = FALSE

IdleLlm ==
  /\ llm_call = [expected_type |-> "STRING", text |-> "", feedback |-> "absent",
                 fails |-> FALSE, question |-> "", tokens |-> <<>>]
  /\ llm_response = [via |-> "none", answer |-> NoValue, confidence |-> 0]
  /\ llm_final = NoValue
  /\ validation = [done |-> FALSE, raised |-> FALSE, reply |-> "", result |-> FALSE]

IdleFetcher ==
  /\ fetch_call = [http |-> "ok", content_type |-> "", ext |-> "", fails |-> FALSE]
  /\ fetch_result = [done |-> FALSE, raised |-> FALSE, processor |-> "none",
                     type |-> "none", error |-> FALSE]
  /\ fetch_session = FALSE

Init ==
  /\ pc = "loop"
  /\ now \in {TOTAL_TIMEOUT - 2 * RETRY_DELAY, TOTAL_TIMEOUT + RETRY_DELAY}
  /\ nModels \in 1..MaxBackends
  /\ Constructed
  /\ IdleCoerce
  /\ IdleServer
  /\ IdleParser
  /\ IdleSum
  /\ IdlePage
  /\ IdleFetcher
  /\ IdleLlm
  /\ IdleBrowser

\* --------------------------------------------------------------- actions

Halt_goes_on(why) == /\ pc' = "sleep"
                     /\ halt' = why
Halt_as_budget(why) == /\ pc' = "cleanup"
                       /\ halt' = "budget"
Halt(why) == /\ pc' = "cleanup"
             /\ halt' = why

\* solve_chain: the while condition, evaluated before each page.  The verdict
\* of the previous page is dropped when a new page starts.
LoopCheck ==
  /\ pc = "loop"
  /\ IF current_url # NoUrl /\ ~is_timed_out(now, start_time)
       THEN /\ pc' = "primary"
            /\ last_result' = NoResult
            /\ halt' = halt
       ELSE /\ Halt(IF current_url = NoUrl THEN "no_url" ELSE "budget")
            /\ last_result' = last_result
  /\ UNCHANGED <<current_url, start_time, now, nModels, setup_done, session,
                 page, resources, submit_url, headers, resIdx, context, attempt, reasoning,
                 submission, visit, closed>>
  /\ UNCHANGED besideChain

\* _get_question_content: BrowserManager.get_page_content.  Setup runs when
\* it has not succeeded yet; a failed setup closes the browser and raises.
\* A timeout is salvaged when the loaded markup can still be captured.
PrimaryFetch ==
  /\ pc = "primary"
  /\ \E d \in Durations, outcome \in {"ok", "salvage", "raise", "setup_failed"} :
       /\ outcome = "setup_failed" => ~setup_done
       /\ now' = Advance(now, d)
       /\ setup_done' = (outcome # "setup_failed")
       /\ visit' = [visit EXCEPT !.primary = @ + 1,
                                 !.primaryRaised = outcome \in {"raise", "setup_failed"}]
       /\ IF outcome \in {"ok", "salvage"}
            THEN /\ page' = (IF outcome = "ok" THEN "primary" ELSE "salvage")
                 /\ pc' = "parse"
            ELSE /\ page' = "none"
                 /\ pc' = "fallback"
  /\ UNCHANGED <<current_url, start_time, nModels, session, resources, submit_url, headers,
                 resIdx, context, attempt, reasoning, submission, last_result,
                 closed, halt>>
  /\ UNCHANGED besideChain

\* _get_question_content and the break of solve_chain: where the loop goes
\* after the fallback path returned (ok) or raised.
after_fallback_again(ok) == IF ok THEN "parse" ELSE "fallback"
after_fallback(ok) == IF ok THEN "parse" ELSE "cleanup"

\* _get_question_content: BrowserFallback.get_page_content after the primary
\* path raised; when it raises too the function returns None and the loop
\* breaks.
FallbackFetch ==
  /\ pc = "fallback"
  /\ \E d \in Durations, ok \in BOOLEAN :
       /\ now' = Advance(now, d)
       /\ session' = [session EXCEPT !["fallback_browser"] = TRUE]
       /\ visit' = [visit EXCEPT !.fallback = @ + 1]
       /\ page' = (IF ok THEN "fallback" ELSE "none")
       /\ pc' = after_fallback(ok)
       /\ halt' = (IF pc' = "cleanup" THEN "acquisition" ELSE halt)
  /\ UNCHANGED <<current_url, start_time, nModels, setup_done, resources, submit_url,
                 headers, resIdx, context, attempt, reasoning, submission,
                 last_result, closed>>
  /\ UNCHANGED besideChain

\* parse_page_content raises when the submit target captured from the text is
\* a relative reference urljoin rejects (as //[::1/submit: ValueError,
\* "Invalid IPv6 URL"); nothing inside the parser catches it.
parse_raises(malformed_target) == malformed_target

\* _get_question_content: QuizParser.parse_page_content yields the question;
\* when it raises the function returns None and the loop breaks.
Parse ==
  /\ pc = "parse"
  /\ \E rs \in ResourceLists, malformed_target \in BOOLEAN :
       IF parse_raises(malformed_target)
         THEN /\ rs = <<>>
              /\ Halt("extraction")
              /\ UNCHANGED <<resources, submit_url, visit>>
         ELSE /\ resources' = rs
              /\ submit_url' = page_submit_url(current_url)
              /\ visit' = [visit EXCEPT !.parsed = @ + 1]
              /\ pc' = "gather"
              /\ halt' = halt
  /\ page' = "none"
  /\ UNCHANGED <<current_url, start_time, now, nModels, setup_done, session,
                 headers, resIdx, context, attempt, reasoning, submission,
                 last_result, closed>>
  /\ UNCHANGED besideChain

Part(k, r) == [kind |-> k, url |-> r]

\* _process_resources up to the for loop: nothing to do without resources;
\* otherwise the page is fetched again through the fallback path to discover
\* API headers, and a failure of that fetch leaves the headers empty.
Gather ==
  /\ pc = "gather"
  /\ IF resources = <<>>
       THEN /\ context' = <<Part("no_resources", 0)>>
            /\ pc' = "reason"
            /\ attempt' = 0
            /\ UNCHANGED <<now, session, headers, resIdx, visit>>
       ELSE /\ \E d \in Durations, found \in {"raise", "empty", "found"} :
                 /\ now' = Advance(now, d)
                 /\ headers' = (IF found = "found" THEN "found" ELSE "empty")
                 /\ visit' = [visit EXCEPT !.header = @ + 1,
                                           !.headerRaised = (found = "raise")]
            /\ session' = [session EXCEPT !["fallback_browser"] = TRUE]
            /\ context' = <<Part("title", 0)>>
            /\ resIdx' = 1
            /\ pc' = "resource"
            /\ attempt' = attempt
  /\ UNCHANGED <<current_url, start_time, nModels, setup_done, page, resources, submit_url,
                 reasoning, submission, last_result, closed, halt>>
  /\ UNCHANGED besideChain

\* The parts one resource contributes to the context.
ResourceParts_no_headers(r, hdrs, ok) ==
  IF ok
    THEN <<Part("resource", r), Part("content", r), Part("separator", r)>>
    ELSE <<Part("error", r)>>
ResourceParts_silent(r, hdrs, ok) ==
  IF ok
    THEN <<Part("resource", r)>>
         \o (IF hdrs = "found" THEN <<Part("headers", r)>> ELSE <<>>)
         \o <<Part("content", r), Part("separator", r)>>
    ELSE <<>>
ResourceParts(r, hdrs, ok) ==
  IF ok
    THEN <<Part("resource", r)>>
         \o (IF hdrs = "found" THEN <<Part("headers", r)>> ELSE <<>>)
         \o <<Part("content", r), Part("separator", r)>>
    ELSE <<Part("error", r)>>

\* _process_resources: one pass of the for loop; a failing fetch is noted in
\* the context and the loop goes on.
FetchResource ==
  /\ pc = "resource"
  /\ \E d \in Durations, ok \in BOOLEAN :
       /\ now' = Advance(now, d)
       /\ context' = context \o ResourceParts(resources[resIdx], headers, ok)
       /\ visit' = [visit EXCEPT !.fetched[resources[resIdx]] = @ + 1,
                                 !.failed = IF ok THEN @ ELSE @ \cup {resources[resIdx]},
                                 !.headerRaised = @ /\ resIdx < Len(resources)]
  /\ session' = [session EXCEPT !["fetcher"] = TRUE]
  /\ resIdx' = resIdx + 1
  /\ IF resIdx = Len(resources)
       THEN /\ pc' = "reason"
            /\ attempt' = 0
       ELSE /\ pc' = "resource"
            /\ attempt' = attempt
  /\ UNCHANGED <<current_url, start_time, nModels, setup_done, page, resources, submit_url,
                 headers, reasoning, submission, last_result, closed, halt>>
  /\ UNCHANGED besideChain

\* _solve_with_retries: _reason_about_answer of the current attempt.  fails is
\* the set of backends of the window that fail.  A call that returned None
\* makes the read of result.answer raise into solve_chain.
Reason ==
  /\ pc = "reason"
  /\ \E d \in Durations, fails \in SUBSET Range(models_to_try(attempt, nModels)) :
       /\ now' = Advance(now, d)
       /\ reasoning' = reason_about_question(attempt, nModels, fails)
  /\ visit' = [visit EXCEPT !.reasons = Append(@, attempt),
                            !.afterCorrect = @ + (IF last_result.correct THEN 1 ELSE 0)]
  /\ IF reasoning'.result = "none"
       THEN Halt("exception")
       ELSE /\ pc' = "submit"
            /\ halt' = halt
  /\ UNCHANGED <<current_url, start_time, nModels, setup_done, session, page,
                 resources, submit_url, headers, resIdx, context, attempt, submission,
                 last_result, closed>>
  /\ UNCHANGED besideChain

\* _solve_with_retries: what follows the verdict of attempt a: return on a
\* correct verdict, sleep and retry while attempts remain, else return.
after_verdict_always_retry(correct, a) ==
  IF a < MAX_QUIZ_ATTEMPTS - 1 THEN "sleep" ELSE "decide"
after_verdict_delay_last(correct, a) == IF correct THEN "decide" ELSE "sleep"
after_verdict_regather(correct, a) ==
  IF correct THEN "decide"
  ELSE IF a < MAX_QUIZ_ATTEMPTS - 1 THEN "gather"
  ELSE "decide"
after_verdict(correct, a) ==
  IF correct THEN "decide"
  ELSE IF a < MAX_QUIZ_ATTEMPTS - 1 THEN "sleep"
  ELSE "decide"

\* _solve_with_retries: last_result after the verdict of an attempt.
last_result_after_first_url(prev, result) == IF prev.url # NoUrl THEN prev ELSE result
last_result_after(prev, result) == result

\* _solve_with_retries: _submit_answer of the current attempt and the branch
\* on its verdict.  The call raises only when the submitter cannot create its
\* session (the retry wrapper re-raises after its last try and the waits
\* between the tries).  A payload the size gate rejects meets no response of
\* the endpoint.
Submit ==
  /\ pc = "submit"
  /\ \/ /\ ~session["submitter"]
        /\ LET tries == async_retry([i \in 1..RETRY_ATTEMPTS |-> body_raises(TRUE, NoResponse)],
                                    1, RETRY_FIRST_DELAY, <<>>)
           IN /\ tries.raised
              /\ now' = Advance(now, SumSeq(tries.waits))
        /\ Halt("exception")
        /\ UNCHANGED <<session, reasoning, submission, last_result, visit>>
     \/ /\ \E d \in Durations, len \in PayloadLens, resp \in Responses :
             LET out == submit_answer(len, resp)
                 tries == async_retry([i \in 1..RETRY_ATTEMPTS |-> body_raises(FALSE, resp)],
                                      1, RETRY_FIRST_DELAY, <<>>)
             IN
               /\ (~out.posted => resp.kind = "error")
               /\ ~tries.raised
               /\ now' = Advance(now, d + SumSeq(tries.waits))
               /\ submission' = [len |-> len, posted |-> out.posted, reason |-> out.reason,
                                 posts |-> IF out.posted THEN tries.calls ELSE 0,
                                 url |-> payload_url(current_url, submit_url),
                                 target |-> IF out.posted
                                              THEN post_destination(current_url, submit_url)
                                              ELSE NoUrl,
                                 resp |-> IF out.posted THEN resp ELSE NoResponse,
                                 answer |-> visit.reasons[Len(visit.reasons)]]
               /\ last_result' = last_result_after(last_result,
                                    [correct |-> out.correct, url |-> out.url])
               /\ visit' = [visit EXCEPT !.submits = Append(@, attempt)]
        /\ session' = [session EXCEPT !["submitter"] = TRUE]
        /\ reasoning' = NoReasoning
        /\ halt' = halt
        /\ pc' = after_verdict(last_result'.correct, attempt)
  /\ UNCHANGED <<current_url, start_time, nModels, setup_done, page, resources, submit_url,
                 headers, resIdx, context, attempt, closed>>
  /\ UNCHANGED besideChain

\* _solve_with_retries: the delay before the next attempt.
Sleep ==
  /\ pc = "sleep"
  /\ now' = Advance(now, RETRY_DELAY)
  /\ attempt' = attempt + 1
  /\ submission' = NoSubmission
  /\ visit' = [visit EXCEPT !.sleeps = Append(@, RETRY_DELAY)]
  /\ pc' = "reason"
  /\ UNCHANGED <<current_url, start_time, nModels, setup_done, session, page,
                 resources, submit_url, headers, resIdx, context, reasoning, last_result,
                 closed, halt>>
  /\ UNCHANGED besideChain

\* solve_chain, step 4: where the chain goes after the final verdict.
next_url_when_correct(v) == IF v.correct /\ v.url # NoUrl THEN v.url ELSE NoUrl
next_url(v) ==
  IF v.correct /\ v.url # NoUrl THEN v.url
  ELSE IF ~v.correct /\ v.url # NoUrl THEN v.url
  ELSE NoUrl

Decide ==
  /\ pc = "decide"
  /\ current_url' = next_url(last_result)
  /\ visit' = NewVisit
  /\ page' = "none"
  /\ resources' = <<>>
  /\ submit_url' = NoUrl
  /\ headers' = "empty"
  /\ resIdx' = 0
  /\ context' = <<>>
  /\ attempt' = 0
  /\ reasoning' = NoReasoning
  /\ submission' = NoSubmission
  /\ pc' = "loop"
  /\ UNCHANGED <<start_time, now, nModels, setup_done, session, last_result,
                 closed, halt>>
  /\ UNCHANGED besideChain

\* _cleanup: the four close() calls inside one try block, in this order.
CloseOrder == <<"browser", "fallback_browser", "fetcher", "submitter">>
Position(c) == CHOOSE i \in 1..Len(CloseOrder) : CloseOrder[i] = c

\* close() of a collaborator can raise only while it closes an open session;
\* BrowserManager.close catches its own errors.
MayRaiseOnClose == {c \in Collaborators \ {"browser"} : session[c]}

Cleanup ==
  /\ pc = "cleanup"
  /\ \E raising \in {"nobody"} \cup MayRaiseOnClose :
       LET last == IF raising = "nobody" THEN Len(CloseOrder) ELSE Position(raising)
       IN /\ closed' = [c \in Collaborators |->
                          closed[c] + (IF Position(c) <= last THEN 1 ELSE 0)]
          /\ session' = [c \in DOMAIN session |->
                          IF Position(c) <= last /\ c # raising THEN FALSE ELSE session[c]]
  /\ setup_done' = FALSE
  /\ pc' = "done"
  /\ UNCHANGED <<current_url, start_time, now, nModels, page, resources, submit_url,
                 headers, resIdx, context, attempt, reasoning, submission,
                 last_result, visit, halt>>
  /\ UNCHANGED besideChain

Next ==
  \/ LoopCheck
  \/ PrimaryFetch
  \/ FallbackFetch
  \/ Parse
  \/ Gather
  \/ FetchResource
  \/ Reason
  \/ Submit
  \/ Sleep
  \/ Decide
  \/ Cleanup

Spec == Init /\ [][Next]_vars

TypeOK ==
  /\ pc \in {"loop", "primary", "fallback", "parse", "gather", "resource",
             "reason", "submit", "sleep", "decide", "cleanup", "done"}
  /\ current_url \in {NoUrl} \cup Urls
  /\ now \in 0..MaxClock
  /\ attempt \in 0..(MAX_QUIZ_ATTEMPTS - 1)
  /\ resources \in ResourceLists
  /\ submit_url \in {NoUrl, SubmitEndpoint} \cup Urls
  /\ halt \in {"none", "no_url", "budget", "acquisition", "extraction", "exception"}

\* ---------------------------------------------------------------- claims

MaxAttemptIndex == 3
Halted == pc \in {"cleanup", "done"}
NothingDoneForPage ==
  /\ visit.header = 0
  /\ \A r \in ResourceIds : visit.fetched[r] = 0
  /\ visit.reasons = <<>>
  /\ visit.submits = <<>>

\* C1  Budget termination: when more than 180 seconds have elapsed since the
\* start timestamp at the moment the loop is about to start a page, the loop
\* leaves for teardown with no page fetch (primary or fallback), no resource
\* fetch, no reasoning and no submission for that page, and once the loop has
\* ended nothing but teardown follows.
C1_BudgetTermination ==
  [][ /\ (pc = "loop" /\ current_url # NoUrl /\ now - start_time > 180)
          => (pc' = "cleanup" /\ visit = NewVisit /\ visit' = NewVisit)
      /\ Halted => (pc' = "done" /\ visit' = visit /\ current_url' = current_url)
    ]_vars

\* The budget stopped a chain that had solved a page and had a next URL.
C1_Witness ==
  /\ pc = "done"
  /\ halt = "budget"
  /\ last_result.url # NoUrl
  /\ visit = NewVisit

\* C2  Bounded attempts: a page visit makes at most 3 attempts, and at least
\* one when _solve_with_retries returns; reasoning calls and submissions use
\* the attempt indices 0, 1, 2 in that order, each submission following the
\* reasoning call of its index; no attempt follows a correct verdict.
C2_BoundedAttempts ==
  /\ Len(visit.reasons) <= 3
  /\ \A i \in 1..Len(visit.reasons) : visit.reasons[i] = i - 1
  /\ \A i \in 1..Len(visit.submits) : visit.submits[i] = i - 1
  /\ Len(visit.submits) <= Len(visit.reasons)
  /\ Len(visit.reasons) <= Len(visit.submits) + 1
  /\ visit.afterCorrect = 0
  /\ pc = "decide" => Len(visit.submits) >= 1

\* Three incorrect attempts were made for a page.
C2_Witness ==
  /\ pc = "decide"
  /\ visit.submits = <<0, 1, 2>>
  /\ ~last_result.correct

\* C3 (as stated)  After the attempts for a page end the current URL becomes
\* the final verdict's next URL whenever it carries one, and the loop goes on
\* to fetch that URL; with no next URL the current URL becomes none and the
\* chain halts without fetching another page.
C3_Original ==
  [][ /\ pc = "decide" => current_url' = last_result.url
      /\ (pc = "loop" /\ last_result.url # NoUrl)
           => (pc' = "primary" /\ current_url' = last_result.url)
      /\ (pc = "loop" /\ current_url = NoUrl) => pc' = "cleanup"
    ]_vars

\* C3 (amended)  As stated, except that the loop goes on to fetch the next URL
\* only when the elapsed time does not exceed 180 seconds at the loop check;
\* otherwise the chain halts with that URL as its current URL.
C3_ContinuationDecision ==
  [][ /\ pc = "decide" => current_url' = last_result.url
      /\ (pc = "loop" /\ last_result.url # NoUrl /\ ~(now - start_time > 180))
           => (pc' = "primary" /\ current_url' = last_result.url)
      /\ (pc = "loop" /\ last_result.url # NoUrl /\ now - start_time > 180)
           => (pc' = "cleanup" /\ current_url' = last_result.url)
      /\ (pc = "loop" /\ current_url = NoUrl) => pc' = "cleanup"
    ]_vars

\* The loop is about to fetch the next URL of an incorrect final verdict.
C3_Witness ==
  /\ pc = "loop"
  /\ ~last_result.correct
  /\ last_result.url = 2
  /\ current_url = 2
  /\ ~(now - start_time > 180)

\* C4  Reasoning never fails the call: whatever the attempt index, the number
\* of backends and the pattern of backend failures, a reasoning call returns
\* a response (a backend's or the heuristic fallback's), never nothing.
C4_ReasoningNeverFails ==
  Len(visit.reasons) > Len(visit.submits) => reasoning.result \in {"backend", "fallback"}

\* C5  Backend window selection: attempt 0 calls only backends 0 and 1,
\* attempt 1 only backends 1 and 2, later attempts only backends from 2 on;
\* calls go in rank order, each backend of the window is called only after
\* all earlier ones of the window failed, and none after one responded.
ClaimedWindow(a) ==
  IF a = 0 THEN {0, 1}
  ELSE IF a = 1 THEN {1, 2}
  ELSE {b \in 0..(MaxBackends + 1) : b >= 2}

C5_BackendWindow ==
  LET calls == reasoning.calls IN
    /\ \A k \in 1..Len(calls) :
         /\ calls[k].backend \in ClaimedWindow(attempt)
         /\ calls[k].backend < nModels
         /\ k < Len(calls) => ~calls[k].ok
         /\ k < Len(calls) => calls[k].backend < calls[k + 1].backend
         /\ \A b \in ClaimedWindow(attempt) :
              b < calls[k].backend =>
                \E j \in 1..(k - 1) : calls[j].backend = b /\ ~calls[j].ok
    /\ reasoning.result = "backend" <=> (calls # <<>> /\ calls[Len(calls)].ok)

\* On the second attempt backend 1 failed and backend 2 answered.
C5_Witness ==
  /\ pc = "submit"
  /\ attempt = 1
  /\ Len(reasoning.calls) = 2
  /\ reasoning.calls[1] = [backend |-> 1, ok |-> FALSE]
  /\ reasoning.calls[2] = [backend |-> 2, ok |-> TRUE]

\* C6  Attempt-window monotonicity: for the loaded number of backends and
\* every attempt index i, the first backend eligible for attempt i+1 has an
\* index at least that of the first backend eligible for attempt i.
C6_WindowMonotone ==
  \A i \in 0..MaxAttemptIndex :
    LET w0 == models_to_try(i, nModels)
        w1 == models_to_try(i + 1, nModels)
    IN (w0 # <<>> /\ w1 # <<>>) => w1[1] >= w0[1]

\* The third attempt starts at backend 2, after the window of the second.
C6_Witness ==
  /\ pc = "submit"
  /\ attempt = 2
  /\ reasoning.calls # <<>>
  /\ reasoning.calls[1].backend = 2
  /\ models_to_try(1, nModels)[1] = 1

\* C7  Resource isolation: once gathering is over every resource of the list
\* has been attempted exactly once, the context holds the content of each
\* resource whose fetch succeeded and an error note naming each resource
\* whose fetch failed, and the loop is at (or past) the first reasoning
\* attempt: a failed resource fetch never ends the chain.
GatheringOver == pc \in {"reason", "submit", "sleep", "decide"} \/ visit.reasons # <<>>

C7_ResourceIsolation ==
  /\ (resources # <<>> /\ GatheringOver) =>
       \A r \in Range(resources) :
         /\ visit.fetched[r] = 1
         /\ r \in visit.failed =>
              (Part("error", r) \in Range(context) /\ Part("content", r) \notin Range(context))
         /\ r \notin visit.failed =>
              (Part("content", r) \in Range(context) /\ Part("error", r) \notin Range(context))
  /\ pc = "resource" => (resIdx <= Len(resources) /\ halt = "none")
  /\ (visit.failed # {} /\ Halted) => visit.reasons # <<>>
  /\ (pc = "reason" /\ visit.reasons = <<>>) => attempt = 0

\* With resources A and B, A failed, B succeeded, and reasoning is next.
C7_Witness ==
  /\ pc = "reason"
  /\ attempt = 0
  /\ resources = <<1, 2>>
  /\ visit.failed = {1}
  /\ Part("content", 2) \in Range(context)
  /\ Part("error", 1) \in Range(context)

\* C8 (as stated)  The fallback acquisition path is tried for a page only
\* after the primary path raised for that page, and at most once; if both
\* raise the chain halts with nothing more done for that URL.
C8_Original ==
  /\ visit.fallback + visit.header <= 1
  /\ visit.fallback + visit.header >= 1 => visit.primaryRaised
  /\ halt = "acquisition" => (Halted /\ NothingDoneForPage)

\* C8 (amended)  In the acquisition step of a page visit the fallback path is
\* tried only after the primary path raised for that page, and at most once
\* (header discovery fetches the page through the fallback path once more
\* when the question has resources); if both raise the chain halts with no
\* resource fetch, no reasoning call and no submission for that URL and no
\* further page visited.
C8_AcquisitionFatal ==
  /\ visit.fallback <= 1
  /\ visit.primary <= 1
  /\ visit.fallback = 1 => (visit.primary = 1 /\ visit.primaryRaised)
  /\ halt = "acquisition" =>
       (Halted /\ NothingDoneForPage /\ visit.primaryRaised /\ visit.fallback = 1)

\* Both paths raised and the chain ended without touching the page further.
C8_Witness ==
  /\ pc = "done"
  /\ halt = "acquisition"
  /\ visit.primaryRaised
  /\ visit.fallback = 1

\* C9  Teardown: when solve_chain has ended, close has been invoked exactly
\* once on each of the four collaborators, also when one of the closes raised.
C9_Teardown ==
  pc = "done" => \A c \in Collaborators : closed[c] = 1

\* C10  Payload size gate: a submission whose serialized payload is 1,000,000
\* bytes or larger is not POSTed and gets a verdict with correct = false, no
\* next URL and the size-limit reason.
C10_PayloadSizeGate ==
  submission.len >= 1000000 =>
    /\ ~submission.posted
    /\ submission.reason = "size"
    /\ last_result = [correct |-> FALSE, url |-> NoUrl]

\* A payload of exactly 1,000,000 bytes was rejected without a POST.
C10_Witness ==
  /\ submission.len = 1000000
  /\ ~submission.posted
  /\ pc \in {"sleep", "decide"}

\* C11  Submission retry: a call of submit_answer whose POST failed with a
\* transport error re-issues the POST, so that the call has made 3 POSTs
\* when it gives up with the error.
C11_SubmissionRetry ==
  (submission.posted /\ submission.resp.kind = "error") => submission.posts = 3

C13_PayloadUrl ==
  /\ submission # NoSubmission => submission.url = current_url
  /\ submission.posted => submission.target = submit_url

\* On a later attempt the payload named the page while the POST went to the
\* endpoint the page names.
C13_Witness ==
  /\ submission.posted
  /\ attempt = 1
  /\ submission.url = 1
  /\ submission.target = SubmitEndpoint
  /\ submit_url # current_url

\* C22  Most recent verdict decides: the verdict used for the continuation
\* decision of a page is the verdict of the last attempt made for that page.
\* A next URL carried by an earlier incorrect verdict neither ends the retries
\* for the page nor is followed; when all 3 attempts are incorrect the third
\* verdict and its next URL, if any, are the ones used.
C22_MostRecentVerdict ==
  /\ submission # NoSubmission =>
       /\ submission.answer = attempt
       /\ visit.submits[Len(visit.submits)] = attempt
       /\ (submission.posted /\ submission.resp.kind = "json") =>
            last_result = [correct |-> submission.resp.correct,
                           url |-> submission.resp.url]
       /\ (~submission.posted \/ submission.resp.kind \in {"error", "other_json", "http"}) =>
            last_result = [correct |-> FALSE, url |-> NoUrl]
       /\ pc = "sleep" <=> (~last_result.correct /\ attempt < 3 - 1)
       /\ pc = "decide" <=> (last_result.correct \/ attempt = 3 - 1)
       /\ submission.url = current_url
  /\ (pc = "loop" /\ session["submitter"]) => current_url = last_result.url

\* The first attempt got an incorrect verdict naming page 2; the second
\* attempt for page 1 is under way.
C22_Witness ==
  /\ pc = "submit"
  /\ attempt = 1
  /\ current_url = 1
  /\ last_result = [correct |-> FALSE, url |-> 2]

\* C23  Cooperative budget: the wall-clock budget is evaluated only at the
\* start of a loop iteration.  A page in progress when the budget becomes
\* exceeded runs its remaining steps, all remaining attempts and submissions
\* included; the budget only refuses the fetch of the next page.
C23_CooperativeBudget ==
  /\ halt = "budget" =>
       /\ Halted
       /\ visit = NewVisit
       /\ current_url # NoUrl
       /\ now - start_time > 180
  /\ pc \notin {"loop", "cleanup", "done"} => halt = "none"
  /\ (Halted /\ visit # NewVisit) => halt \in {"acquisition", "extraction", "exception"}
  /\ pc = "decide" => (last_result.correct \/ visit.submits = <<0, 1, 2>>)

\* The budget is exceeded, the second verdict of the page was incorrect, and
\* the chain is about to sleep and make the third attempt.
C23_Witness ==
  /\ pc = "sleep"
  /\ attempt = 1
  /\ now - start_time > 180
  /\ halt = "none"

\* C24  Step order within a page visit: a page visit performs, in this
\* order, one page acquisition (primary, then fallback only if the primary
\* raised), one extraction, one resource-gathering pass and then the
\* attempts; each submission is preceded by the reasoning call of the same
\* attempt index and submits that call's answer; the resource context is
\* built once per page visit and every attempt of the page gets that context.
C24_StepOrder ==
  LET gathered == IF resources = <<>> THEN <<Part("no_resources", 0)>>
                  ELSE <<Part("title", 0)>>
                       \o Flatten([i \in 1..Len(resources) |->
                            ResourceParts(resources[i], headers,
                                          resources[i] \notin visit.failed)])
  IN
  /\ visit.primary <= 1 /\ visit.fallback <= 1 /\ visit.parsed <= 1 /\ visit.header <= 1
  /\ (visit.fallback = 1 \/ pc = "fallback") => (visit.primary = 1 /\ visit.primaryRaised)
  /\ visit.parsed = 1 =>
       (visit.primary = 1 /\ (visit.fallback = 1 <=> visit.primaryRaised))
  /\ visit.parsed = 0 => (NothingDoneForPage /\ context = <<>> /\ resources = <<>>)
  /\ \A r \in ResourceIds : visit.fetched[r] <= 1
  /\ (visit.reasons # <<>> \/ pc \in {"reason", "submit", "sleep", "decide"}) =>
       /\ visit.parsed = 1
       /\ visit.header = (IF resources = <<>> THEN 0 ELSE 1)
       /\ \A r \in Range(resources) : visit.fetched[r] = 1
       /\ context = gathered
  /\ Len(visit.submits) <= Len(visit.reasons)
  /\ submission # NoSubmission =>
       /\ Len(visit.submits) = Len(visit.reasons)
       /\ visit.submits[Len(visit.submits)] = visit.reasons[Len(visit.reasons)]
       /\ submission.answer = visit.reasons[Len(visit.reasons)]
  /\ pc = "submit" => Len(visit.reasons) = Len(visit.submits) + 1

\* The page came through the fallback path, two resources were gathered, and
\* the second attempt is about to submit with the context built once.
C24_Witness ==
  /\ pc = "submit"
  /\ attempt = 1
  /\ visit.primaryRaised
  /\ visit.fallback = 1
  /\ visit.parsed = 1
  /\ Len(resources) = 2
  /\ visit.failed = {2}
  /\ visit.reasons = <<0, 1>>
  /\ visit.submits = <<0>>
  /\ Len(context) = 5

\* C25  Retry delay placement: within one page visit the fixed retry delay is
\* slept exactly once between two consecutive attempts, that is after each
\* incorrect verdict that is followed by another attempt; no delay is slept
\* after a correct verdict or after the last allowed attempt.
C25_RetryDelayPlacement ==
  /\ visit.sleeps = [i \in 1..attempt |-> RETRY_DELAY]
  /\ Len(visit.submits) >= 1 =>
       Len(visit.sleeps) \in {Len(visit.submits) - 1, Len(visit.submits)}
  /\ (Len(visit.submits) >= 1 /\ Len(visit.sleeps) = Len(visit.submits)) =>
       pc \in {"reason", "submit"} \/ Halted
  /\ pc = "sleep" =>
       /\ ~last_result.correct
       /\ Len(visit.submits) < 3
       /\ Len(visit.sleeps) = Len(visit.submits) - 1
  /\ pc = "decide" =>
       /\ last_result.correct \/ Len(visit.submits) = 3
       /\ Len(visit.sleeps) = Len(visit.submits) - 1
  /\ (submission # NoSubmission /\ ~last_result.correct /\ Len(visit.submits) < 3)
       => pc = "sleep"

\* The third attempt got a correct verdict after two delays.
C25_Witness ==
  /\ pc = "decide"
  /\ last_result.correct
  /\ visit.submits = <<0, 1, 2>>
  /\ visit.sleeps = <<RETRY_DELAY, RETRY_DELAY>>

\* C26  Error raised into the loop: when the submission call raises into
\* solve_chain after its retry wrapper is exhausted, or the reasoning step
\* raises, the chain halts: the raising attempt is the last attempt of the
\* page, the visit of that page is never replaced by a new one, teardown runs
\* and solve_chain ends normally.
C26_ErrorRaisedIntoLoop ==
  /\ halt = "exception" =>
       /\ Halted
       /\ visit.parsed = 1
       /\ Len(visit.reasons) = Len(visit.submits) + 1
       /\ visit.reasons[Len(visit.reasons)] = attempt
       /\ Len(visit.sleeps) = attempt
       /\ reasoning.result # "none" => visit.submits = <<>> /\ submission = NoSubmission
  /\ (pc = "done" /\ halt = "exception") => closed["browser"] = 1
  /\ (pc = "cleanup" /\ halt = "exception") => \A c \in Collaborators : closed[c] = 0

\* The submission call raised on the first attempt and the chain has ended.
C26_Witness ==
  /\ pc = "done"
  /\ halt = "exception"
  /\ reasoning.result # "none"
  /\ visit.reasons = <<0>>
  /\ visit.submits = <<>>
  /\ closed["browser"] = 1

\* C27  Extraction always proceeds: no page content makes the chain halt at
\* the extraction step; every acquired page yields a Question.
C27_ExtractionAlwaysProceeds ==
  /\ halt # "extraction"
  /\ (Halted /\ visit.parsed = 0) => halt \in {"no_url", "budget", "acquisition"}

C38_ExactSizeThreshold ==
  submission # NoSubmission =>
    /\ submission.reason = "size" <=> submission.len >= 1000000
    /\ submission.len <= 999999 => submission.posted /\ submission.target # NoUrl

\* Wall-clock time advances: a step of the chain that takes time.
TimePasses == Next /\ now' > now

\* The chain when every step completes and time does not stand still
\* for ever.
SpecLive == Spec /\ WF_vars(Next) /\ SF_vars(TimePasses)

\* C37  Chain termination: when every step completes and wall-clock time
\* advances, solve_chain ends and teardown has run, whatever the scoring
\* endpoint answers, a next URL on every verdict included.
C37_ChainTermination == <>(pc = "done" /\ closed["browser"] = 1)

\* The budget ended a chain whose last verdict still named a next URL, and
\* teardown has run.
C37_Witness ==
  /\ pc = "done"
  /\ halt = "budget"
  /\ current_url # NoUrl
  /\ closed["browser"] = 1

\* ------------------------------------------------------- answer coercion
\* QuizSolver._enforce_answer_type and the answer preparation of
\* _submit_answer, over a finite universe of Python values.  The library
\* functions they call are given as tables over the texts of that universe.

AnswerTypes == {"NUMBER", "STRING", "BOOLEAN", "JSON", "BASE64_FILE"}

\* Candidate answers: numbers, booleans, strings, JSON objects and arrays.
CandidateAnswers ==
  {Val("int", "5"), Val("int", "0"), Val("float", "2.5"), Val("float", "3.0"),
   Val("bool", "True"), Val("bool", "False"),
   Val("str", "42"), Val("str", "2.5"), Val("str", "abc"), Val("str", "yes"),
   Val("str", "Hello World"), Val("str", "SGVsbG8gV29ybGQ="), Val("str", "[1, 2]"),
   Val("dict", "{'a': 1}"), Val("dict", "{}"), Val("list", "[1, 2]")}

\* base64.b64encode(text.encode()).decode()
B64Table ==
  "5" :> "NQ==" @@ "0" :> "MA==" @@ "2.5" :> "Mi41" @@ "3.0" :> "My4w" @@
  "True" :> "VHJ1ZQ==" @@ "False" :> "RmFsc2U=" @@ "42" :> "NDI=" @@
  "abc" :> "YWJj" @@ "yes" :> "eWVz" @@
  "Hello World" :> "SGVsbG8gV29ybGQ=" @@ "[1, 2]" :> "WzEsIDJd" @@
  "{'a': 1}" :> "eydhJzogMX0=" @@ "{}" :> "e30=" @@
  "NQ==" :> "TlE9PQ==" @@ "MA==" :> "TUE9PQ==" @@ "Mi41" :> "TWk0MQ==" @@
  "My4w" :> "TXk0dw==" @@ "VHJ1ZQ==" :> "VkhKMVpRPT0=" @@
  "RmFsc2U=" :> "Um1Gc2MyVT0=" @@ "NDI=" :> "TkRJPQ==" @@
  "YWJj" :> "WVdKag==" @@ "eWVz" :> "ZVdWeg==" @@
  "WzEsIDJd" :> "V3pFc0lESmQ=" @@ "eydhJzogMX0=" :> "ZXlkaEp6b2dNWDA9" @@
  "e30=" :> "ZTMwPQ==" @@
  "none" :> "bm9uZQ==" @@ "false" :> "ZmFsc2U=" @@ "" :> "" @@ "a" :> "YQ==" @@
  "ab" :> "YWI=" @@ "{\"a\": 1}" :> "eyJhIjogMX0=" @@
  "here {\"a\": 1} ok" :> "aGVyZSB7ImEiOiAxfSBvaw==" @@ "{bad}" :> "e2JhZH0="
b64encode(text) == B64Table[text]

\* Texts whose lowercase contains "hello world".
HelloTexts == {"Hello World"}

\* base64.b64decode(text).decode('utf-8') succeeds and the decoded text
\* contains "hello world" case-insensitively.
DecodesToHello(text) ==
  \E plain \in DOMAIN B64Table : B64Table[plain] = text /\ plain \in HelloTexts

\* re.findall(r'-?\d+\.?\d*', text): the first match, for the texts that have one.
FirstNumber ==
  "42" :> "42" @@ "2.5" :> "2.5" @@ "SGVsbG8gV29ybGQ=" :> "8" @@
  "[1, 2]" :> "1" @@ "{'a': 1}" :> "1"

\* float(text) as the text of the float, for the texts float() accepts.
FloatText ==
  "42" :> "42.0" @@ "2.5" :> "2.5" @@ "8" :> "8.0" @@ "1" :> "1.0" @@
  "5" :> "5.0" @@ "0" :> "0.0" @@ "3.0" :> "3.0"

\* The floats f with f.is_integer(), and int(f) as text.
WholeFloats ==
  "42.0" :> "42" @@ "8.0" :> "8" @@ "1.0" :> "1" @@ "5.0" :> "5" @@
  "0.0" :> "0" @@ "3.0" :> "3"

\* json.loads(text), for the texts that are JSON.
JsonLoads ==
  "42" :> Val("int", "42") @@ "2.5" :> Val("float", "2.5") @@
  "[1, 2]" :> Val("list", "[1, 2]")

\* Texts whose lowercase is one of 'true', 'yes', '1', 'correct'.
TrueTexts == {"True", "yes"}

\* str() texts of the values bool() takes for false.
FalsyTexts == {"0", "0.0", "False", "{}", "[]"}

\* The dict {"answer": text}.
Wrapped(text) == Val("dict", "{'answer': '" \o text \o "'}")

\* The float branch shared by the NUMBER cases: an int for a whole number.
whole_or_float(f) ==
  IF f \in DOMAIN WholeFloats THEN Val("int", WholeFloats[f]) ELSE Val("float", f)

\* QuizSolver._enforce_answer_type.  has_is_integer: int has the method
\* is_integer, so that 0 .is_integer() does not raise.
enforce_answer_type(a, k, has_is_integer) ==
  IF k = "NUMBER" THEN
    IF a.t \in {"int", "float", "bool"} THEN
      IF a.t = "float" /\ a.s \in DOMAIN WholeFloats
        THEN Val("int", WholeFloats[a.s])
        ELSE a
    ELSE IF a.t = "str" THEN
      IF a.s \in DOMAIN FirstNumber
        THEN whole_or_float(FloatText[FirstNumber[a.s]])
        ELSE Val("int", "0")
    ELSE IF a.s \in FalsyTexts /\ has_is_integer THEN Val("int", "0")
    ELSE Val("str", a.s)
  ELSE IF k = "BASE64_FILE" THEN
    IF a.t = "str" /\ DecodesToHello(a.s) THEN a
    ELSE Val("str", b64encode(a.s))
  ELSE IF k = "BOOLEAN" THEN
    IF a.t = "bool" THEN a
    ELSE IF a.t = "str" THEN Val("bool", IF a.s \in TrueTexts THEN "True" ELSE "False")
    ELSE Val("bool", IF a.s \in FalsyTexts THEN "False" ELSE "True")
  ELSE IF k = "JSON" THEN
    IF a.t \in {"dict", "list"} THEN a
    ELSE IF a.t = "str" THEN
      IF a.s \in DOMAIN JsonLoads THEN JsonLoads[a.s] ELSE Wrapped(a.s)
    ELSE Wrapped(a.s)
  ELSE Val("str", a.s)

\* QuizSolver._submit_answer: final_answer, the value put into the payload.
submit_final_answer(a, k) ==
  IF k = "NUMBER" /\ a.t = "str" /\ a.s \in DOMAIN FloatText
    THEN IF a.s \in {"2.5", "3.0"} THEN Val("float", FloatText[a.s]) ELSE Val("int", a.s)
    ELSE a

InitCoerce ==
  /\ answer \in CandidateAnswers
  /\ expected_type \in AnswerTypes
  /\ int_is_integer \in BOOLEAN
  /\ enforced = <<>>
  /\ final_answer = NoValue
  /\ IdleChain
  /\ IdleServer
  /\ IdleParser
  /\ IdleSum
  /\ IdlePage
  /\ IdleFetcher
  /\ IdleLlm
  /\ IdleBrowser

\* _reason_about_answer enforces the kind of the reasoning result, and
\* _submit_answer prepares the enforced answer for the payload.
EnforceAnswerType ==
  /\ enforced = <<>>
  /\ enforced' = <<enforce_answer_type(answer, expected_type, int_is_integer)>>
  /\ final_answer' = submit_final_answer(enforced'[1], expected_type)
  /\ UNCHANGED <<answer, expected_type, int_is_integer, besideCoerce>>

\* The enforced answer is enforced once more.
EnforceAgain ==
  /\ Len(enforced) = 1
  /\ enforced' = Append(enforced, enforce_answer_type(enforced[1], expected_type,
                                                      int_is_integer))
  /\ UNCHANGED <<answer, expected_type, int_is_integer, final_answer, besideCoerce>>

NextCoerce ==
  \/ EnforceAnswerType
  \/ EnforceAgain

SpecCoerce == InitCoerce /\ [][NextCoerce]_vars

\* C14  Idempotent coercion: for every candidate answer a and every expected
\* kind k, enforcing the enforced answer again gives the enforced answer.
C14_IdempotentCoercion ==
  Len(enforced) = 2 => enforced[2] = enforced[1]

\* The kinds of values: a base64 text is the encoding of some text.
OfKind(v, k) ==
  IF k = "NUMBER" THEN v.t \in {"int", "float"}
  ELSE IF k = "STRING" THEN v.t = "str"
  ELSE IF k = "BOOLEAN" THEN v.t = "bool"
  ELSE IF k = "JSON" THEN v.t \in {"dict", "list"}
  ELSE v.t = "str" /\ \E plain \in DOMAIN B64Table : B64Table[plain] = v.s

\* C15  Coercion matches the expected kind: for every candidate answer and
\* every expected kind the value that is submitted is of that kind.
C15_CoercionMatchesKind ==
  Len(enforced) >= 1 => OfKind(final_answer, expected_type)

\* ------------------------------------------------------- request handler
\* main.solve_quiz and main.solve_quiz_background.  Both run on one event
\* loop and the handler awaits nothing, so each is one step; the chain a
\* background task runs is the time between its start and its end.

MaxRequests == 3
MaxWallClock == 2

STUDENT_EMAIL == "student@example.com"
STUDENT_SECRET == "s3cret"
PLACEHOLDER_KEY == "your_actual_gemini_api_key_here"

Emails == {STUDENT_EMAIL, "other@example.com"}
Secrets == {STUDENT_SECRET, "wrong"}
ApiKeys == {"", PLACEHOLDER_KEY, "AIza-key"}

\* Settings.validate_user_secret
validate_user_secret_email_only(email, secret) == email = STUDENT_EMAIL
validate_user_secret(email, secret) == email = STUDENT_EMAIL /\ secret = STUDENT_SECRET

\* solve_quiz: the test of the Gemini API key.
key_configured(key) == ~(key = "" \/ key = PLACEHOLDER_KEY)

\* dict assignment and deletion
Put(map, k, v) == [e \in DOMAIN map \cup {k} |-> IF e = k THEN v ELSE map[e]]
Del(map, k) == [e \in DOMAIN map \ {k} |-> map[e]]

InitServer ==
  /\ gemini_api_key \in ApiKeys
  /\ wall_clock = 0
  /\ request_timestamps = EmptyMap
  /\ tasks = {}
  /\ handled = 0
  /\ last_request = NoRequest
  /\ IdleChain
  /\ IdleCoerce
  /\ IdleParser
  /\ IdleSum
  /\ IdlePage
  /\ IdleFetcher
  /\ IdleLlm
  /\ IdleBrowser

Answered(email, secret, code, n) ==
  [email |-> email, secret |-> secret, status |-> code, started |-> n]

\* solve_quiz: POST /quiz
SolveQuiz ==
  /\ handled < MaxRequests
  /\ \E email \in Emails, secret \in Secrets :
       IF ~validate_user_secret(email, secret)
         THEN /\ last_request' = Answered(email, secret, 403, 0)
              /\ UNCHANGED <<request_timestamps, tasks>>
       ELSE IF ~key_configured(gemini_api_key)
         THEN /\ last_request' = Answered(email, secret, 500, 0)
              /\ UNCHANGED <<request_timestamps, tasks>>
       ELSE /\ request_timestamps' = Put(request_timestamps, email, wall_clock)
            /\ tasks' = tasks \cup {[id |-> handled + 1, email |-> email,
                                     secret |-> secret, start_time |-> wall_clock]}
            /\ last_request' = Answered(email, secret, 200,
                                        Cardinality(tasks') - Cardinality(tasks))
  /\ handled' = handled + 1
  /\ UNCHANGED <<gemini_api_key, wall_clock, besideServer>>

\* solve_quiz_background: the chain of a task has ended (or raised) and the
\* finally block removes the entry of the task's email.
SolveQuizBackground ==
  /\ \E t \in tasks :
       /\ tasks' = tasks \ {t}
       /\ request_timestamps' = IF t.email \in DOMAIN request_timestamps
                                  THEN Del(request_timestamps, t.email)
                                  ELSE request_timestamps
  /\ UNCHANGED <<gemini_api_key, wall_clock, handled, last_request, besideServer>>

\* A second passes.
Tick ==
  /\ wall_clock < MaxWallClock
  /\ wall_clock' = wall_clock + 1
  /\ UNCHANGED <<gemini_api_key, request_timestamps, tasks, handled, last_request,
                 besideServer>>

NextServer ==
  \/ SolveQuiz
  \/ SolveQuizBackground
  \/ Tick

SpecServer == InitServer /\ [][NextServer]_vars

\* C16  Request gating: a chain runs only for a request whose email and secret
\* equal the configured values and only with the backend key configured; a
\* credential mismatch is answered 403 with no chain started (also when the
\* key is missing), valid credentials with a missing key 500 with no chain
\* started, anything else 200 with exactly one chain started.
C16_RequestGating ==
  LET keyed == gemini_api_key \notin {"", "your_actual_gemini_api_key_here"}
      r == last_request
      match == r.email = STUDENT_EMAIL /\ r.secret = STUDENT_SECRET
  IN /\ \A t \in tasks : t.email = STUDENT_EMAIL /\ t.secret = STUDENT_SECRET /\ keyed
     /\ handled > 0 =>
          /\ ~match => (r.status = 403 /\ r.started = 0)
          /\ (match /\ ~keyed) => (r.status = 500 /\ r.started = 0)
          /\ (match /\ keyed) => (r.status = 200 /\ r.started = 1)

\* A request with the right email and a wrong secret met 403 although the
\* backend key is missing too, and no chain runs.
C16_Witness ==
  /\ last_request.email = STUDENT_EMAIL
  /\ last_request.secret # STUDENT_SECRET
  /\ last_request.status = 403
  /\ gemini_api_key = ""
  /\ tasks = {}

\* C17  Active-chain tracking: while a chain is running request_timestamps
\* holds an entry for the chain's email whose value is the chain's start
\* time, whatever other requests were accepted and whichever chains ended.
C17_ActiveChainTracking ==
  \A t \in tasks :
    /\ t.email \in DOMAIN request_timestamps
    /\ request_timestamps[t.email] = t.start_time

\* ------------------------------------- heuristic fallback on a JSON resource
\* The context _process_resources builds from one JSON resource
\* {"values": [...]} and the answer LLMEngine._fallback_reasoning derives from
\* it.  A text is the sequence of its tokens: runs of digits (as numbers) and
\* the text between them.

MaxValues == 3

Word(w) == [digits |-> FALSE, w |-> w]
Num(n) == [digits |-> TRUE, n |-> n]
NumsOf(q) == [i \in 1..Len(q) |-> Num(q[i])]

RECURSIVE SeqsUpTo(_, _)
SeqsUpTo(S, n) ==
  IF n = 0 THEN {<<>>}
  ELSE LET shorter == SeqsUpTo(S, n - 1)
       IN shorter \cup {Append(q, x) : q \in shorter, x \in S}

\* Numbers a values array holds, and the digit runs of a resource URL (none,
\* or a port number).
SampleValues == {3, 7, 10}
JsonResources ==
  {[url_numbers |-> u, values |-> v] :
     u \in {<<>>, <<8000>>}, v \in SeqsUpTo(SampleValues, MaxValues)}

\* Question texts, those whose lowercase contains 'sum' and those whose
\* lowercase contains 'value'.
SumQuestions ==
  {"What is the sum of the numbers in the 'values' array?",
   "What is the sum of all the numbers?",
   "How many values are there?"}
WithSum ==
  {"What is the sum of the numbers in the 'values' array?",
   "What is the sum of all the numbers?"}
WithValue ==
  {"What is the sum of the numbers in the 'values' array?",
   "How many values are there?"}

RECURSIVE MaxSeq(_)
MaxSeq(q) == IF Len(q) = 1 THEN q[1] ELSE Max(Head(q), MaxSeq(Tail(q)))
RECURSIVE MinSeq(_)
MinSeq(q) == IF Len(q) = 1 THEN q[1] ELSE Min(Head(q), MinSeq(Tail(q)))

\* f"{sum(values)/len(values):.2f}": the hundredths of the average, rounded
\* to nearest, printed as the integer part, a point and two digits.
AverageTokens(q) ==
  LET hundredths == (200 * SumSeq(q) + Len(q)) \div (2 * Len(q))
  IN <<Num(hundredths \div 100), Word("."), Num(hundredths % 100)>>

\* ResourceFetcher._process_json for the object {"values": values}: the
\* summary with the indented sample, then the derived lines.
process_json(values) ==
  <<Word("JSON object with keys: ['values']. Sample: { values: [")>>
  \o NumsOf(values)
  \o <<Word("] } The JSON contains an array 'values' with these numbers: [")>>
  \o NumsOf(values)
  \o (IF Len(values) > 0
        THEN <<Word("] - Sum: "), Num(SumSeq(values)),
               Word(" - Max: "), Num(MaxSeq(values)),
               Word(" - Min: "), Num(MinSeq(values)),
               Word(" - Average: ")>> \o AverageTokens(values)
        ELSE <<Word("]")>>)

\* QuizSolver._process_resources for the one resource, fetched without
\* headers.
process_resources(res) ==
  <<Word("EXTERNAL RESOURCES: Resource: ")>>
  \o NumsOf(res.url_numbers)
  \o <<Word(" Content: ")>>
  \o process_json(res.values)
  \o <<Word(" ---")>>

\* re.findall(r'\d+', context) as numbers.
FindNumbers(tokens) ==
  LET IsNum(tok) == tok.digits
      runs == SelectSeq(tokens, IsNum)
  IN [i \in 1..Len(runs) |-> runs[i].n]

\* LLMEngine._fallback_reasoning
fallback_reasoning(q, tokens, k) ==
  IF q \in WithSum /\ q \in WithValue /\ FindNumbers(tokens) # <<>>
    THEN Val("int", ToString(SumSeq(FindNumbers(tokens))))
  ELSE IF k = "STRING" THEN Val("str", "Unknown")
  ELSE Val("int", "0")

InitSum ==
  /\ json_resource \in JsonResources
  /\ llm_question \in SumQuestions
  /\ llm_context = <<>>
  /\ llm_answer = NoValue
  /\ IdleChain
  /\ IdleCoerce
  /\ IdleServer
  /\ IdleParser
  /\ IdlePage
  /\ IdleFetcher
  /\ IdleLlm
  /\ IdleBrowser

\* solve_chain, step 2: the context of the page.
ProcessResources ==
  /\ llm_context = <<>>
  /\ llm_context' = process_resources(json_resource)
  /\ UNCHANGED <<json_resource, llm_question, llm_answer, besideSum>>

\* _reason_about_answer when every backend eligible for the attempt fails:
\* the heuristic fallback answers, and the answer is enforced as a NUMBER
\* (the kind of a question with a numeric-intent word).
FallbackReasoning ==
  /\ llm_context # <<>>
  /\ llm_answer = NoValue
  /\ llm_answer' = enforce_answer_type(
                     fallback_reasoning(llm_question, llm_context, "NUMBER"),
                     "NUMBER", FALSE)
  /\ UNCHANGED <<json_resource, llm_question, llm_context, besideSum>>

NextSum ==
  \/ ProcessResources
  \/ FallbackReasoning

SpecSum == InitSum /\ [][NextSum]_vars

\* C18  Sum scenario: for the question asking for the sum of the numbers in
\* the 'values' array, with the context built from the JSON resource
\* {"values": [3, 7, 10]}, the answer of the heuristic fallback is the number
\* 20.
C18_SumScenario ==
  ( /\ json_resource.values = <<3, 7, 10>>
    /\ llm_question = "What is the sum of the numbers in the 'values' array?"
    /\ llm_answer # NoValue )
  => llm_answer = Val("int", "20")

\* ----------------------------------------------------------------- parser
\* QuizParser._determine_answer_type and QuizParser._extract_submit_url.  A
\* page text is a set of phrases (what the classification looks at) and the
\* sequence, in text order, of the places where it mentions a target: a
\* capture that follows phrase template 1..6, or a bare URL (template 0).

MaxMentions == 2
BaseUrl == "https://quiz.example/page1"

Phrases ==
  {"Is 97 a prime number?", "Answer with 'yes' or 'no'.",
   "What is the sum of the values?", "Is it true?", "Return a JSON object.",
   "Upload the file.", "Name the capital.", "Determine whether it rains."}

\* The words of the classification lists, and the two texts of the
\* override, that occur in the lowercased phrase.
PhraseWords ==
  "Is 97 a prime number?" :> {"is 97 a prime number", "number", "prime number"} @@
  "Answer with 'yes' or 'no'." :> {"answer with 'yes' or 'no'", "answer with"} @@
  "What is the sum of the values?" :> {"sum"} @@
  "Is it true?" :> {"true", "is it"} @@
  "Return a JSON object." :> {"json", "object"} @@
  "Upload the file." :> {"file", "upload"} @@
  "Name the capital." :> {} @@
  "Determine whether it rains." :> {"min", "whether"}

\* word in text_lower
InText(word, phrases) == \E ph \in phrases : word \in PhraseWords[ph]

NumberWords ==
  {"sum", "count", "total", "number", "how many", "average", "mean", "maximum",
   "max", "minimum", "min", "sequence", "next number", "compute"}
YesNoWords ==
  {"true", "false", "whether", "is it", "answer with", "yes or no", "yes/no",
   "prime number"}
JsonWords == {"json", "object", "array", "dictionary"}
FileWords == {"file", "attachment", "upload", "base64"}

\* QuizParser._determine_answer_type
determine_answer_type_json_first(phrases) ==
  IF InText("is 97 a prime number", phrases) /\ InText("answer with 'yes' or 'no'", phrases)
    THEN "STRING"
  ELSE IF \E w \in JsonWords : InText(w, phrases) THEN "JSON"
  ELSE IF \E w \in NumberWords : InText(w, phrases) THEN "NUMBER"
  ELSE IF \E w \in YesNoWords : InText(w, phrases) THEN "STRING"
  ELSE IF \E w \in FileWords : InText(w, phrases) THEN "BASE64_FILE"
  ELSE "STRING"
determine_answer_type_boolean(phrases) ==
  IF InText("is 97 a prime number", phrases) /\ InText("answer with 'yes' or 'no'", phrases)
    THEN "STRING"
  ELSE IF \E w \in NumberWords : InText(w, phrases) THEN "NUMBER"
  ELSE IF \E w \in YesNoWords : InText(w, phrases) THEN "BOOLEAN"
  ELSE IF \E w \in JsonWords : InText(w, phrases) THEN "JSON"
  ELSE IF \E w \in FileWords : InText(w, phrases) THEN "BASE64_FILE"
  ELSE "STRING"
determine_answer_type(phrases) ==
  IF InText("is 97 a prime number", phrases) /\ InText("answer with 'yes' or 'no'", phrases)
    THEN "STRING"
  ELSE IF \E w \in NumberWords : InText(w, phrases) THEN "NUMBER"
  ELSE IF \E w \in YesNoWords : InText(w, phrases) THEN "STRING"
  ELSE IF \E w \in JsonWords : InText(w, phrases) THEN "JSON"
  ELSE IF \E w \in FileWords : InText(w, phrases) THEN "BASE64_FILE"
  ELSE "STRING"

\* url_patterns, by position in the list.
Templates == 1..6

\* What a template captures or a bare URL reads: absolute or relative, with
\* or without a submit indicator, with or without a closing full stop.
Captures ==
  {"https://x/check", "https://x/check.", "https://x/data", "https://x/api/verify",
   "/submit", "/next"}
AbsoluteUrls ==
  {"https://x/check", "https://x/check.", "https://x/data", "https://x/api/verify"}

Mentions ==
  {[template |-> t, capture |-> c] : t \in Templates, c \in Captures}
  \cup {[template |-> 0, capture |-> c] : c \in AbsoluteUrls}

\* match.strip('"\',.!;')
Strip(url) == IF url = "https://x/check." THEN "https://x/check" ELSE url

\* QuizParser._is_likely_submit_url: the URL holds one of 'submit', 'answer',
\* 'check', 'verify', 'solution'.
is_likely_submit_url_any(url) == TRUE
is_likely_submit_url(url) ==
  url \in {"https://x/check", "https://x/check.", "https://x/api/verify", "/submit"}

\* QuizParser._is_resource_url: the URL holds one of '.csv', '.pdf', '.json',
\* '.xlsx', '.txt', '/api/', 'download', 'data', '/table-page', '/secret-page'
\* and none of 'submit', 'answer', 'check'.
is_resource_url(url) == url \in {"https://x/data", "https://x/api/verify"}

\* QuizParser._normalize_url: urljoin with the page URL unless the URL
\* starts with 'http'.
UrlJoin == "/submit" :> "https://quiz.example/submit" @@ "/next" :> "https://quiz.example/next"
normalize_url(url) == IF url \in AbsoluteUrls THEN url ELSE UrlJoin[url]

\* _extract_submit_url: the loop over the templates and, inside it, over the
\* matches of a template in text order.
RECURSIVE ScanTemplates(_, _, _)
ScanTemplates(m, t, i) ==
  IF t > 6 THEN "none"
  ELSE IF i > Len(m) THEN ScanTemplates(m, t + 1, 1)
  ELSE IF m[i].template = t /\ is_likely_submit_url(Strip(m[i].capture))
    THEN normalize_url(Strip(m[i].capture))
  ELSE ScanTemplates(m, t, i + 1)

\* _extract_submit_url: the loop over every http(s) URL of the text.
RECURSIVE ScanUrls(_, _)
ScanUrls(m, i) ==
  IF i > Len(m) THEN "none"
  ELSE IF m[i].capture \in AbsoluteUrls /\ is_likely_submit_url(m[i].capture)
    THEN normalize_url(m[i].capture)
  ELSE ScanUrls(m, i + 1)

\* QuizParser._extract_submit_url
extract_submit_url(m) ==
  IF ScanTemplates(m, 1, 1) # "none" THEN ScanTemplates(m, 1, 1)
  ELSE IF ScanUrls(m, 1) # "none" THEN ScanUrls(m, 1)
  ELSE BaseUrl

\* QuizParser._extract_resources: the http(s) URLs of the text that are
\* resource URLs, in text order (the hrefs of the markup add to the list as
\* the bare URLs of the text do).
extract_resources(m) ==
  LET IsResource(mention) == mention.capture \in AbsoluteUrls
                             /\ is_resource_url(mention.capture)
      found == SelectSeq(m, IsResource)
  IN [i \in 1..Len(found) |-> found[i].capture]

\* list(set(resources)): the lists a set of the elements of the list can
\* give, one of each element in an order the set decides.
ListOfSet(found) ==
  {l \in SeqsUpTo(Range(found), Cardinality(Range(found))) :
     Len(l) = Cardinality(Range(found)) /\ Range(l) = Range(found)}

InitParser ==
  /\ full_text \in
       {[phrases |-> ph, mentions |-> <<>>] : ph \in SUBSET Phrases}
       \cup {[phrases |-> {}, mentions |-> m] : m \in SeqsUpTo(Mentions, MaxMentions)}
  /\ question = NoQuestion
  /\ IdleChain
  /\ IdleCoerce
  /\ IdleServer
  /\ IdleSum
  /\ IdlePage
  /\ IdleFetcher
  /\ IdleLlm
  /\ IdleBrowser

\* QuizParser.parse_page_content
ParsePageContent ==
  /\ question = NoQuestion
  /\ \E resources_list \in ListOfSet(extract_resources(full_text.mentions)) :
       question' = [expected_type |-> determine_answer_type(full_text.phrases),
                    submit_url |-> extract_submit_url(full_text.mentions),
                    resources |-> resources_list]
  /\ UNCHANGED <<full_text, besideParser>>

NextParser == ParsePageContent

SpecParser == InitParser /\ [][NextParser]_vars

\* C19  Expected-kind classification: the primality override (the text holds
\* both "is 97 a prime number" and "answer with 'yes' or 'no'") gives STRING;
\* otherwise a numeric-intent word gives NUMBER; otherwise a yes/no word
\* STRING; otherwise a JSON word JSON; otherwise a file word BASE64_FILE;
\* otherwise STRING.  A text with a numeric-intent word and a JSON word (and
\* no override) is NUMBER, and the primality question is STRING.
C19_ExpectedKind ==
  question # NoQuestion =>
    LET ph == full_text.phrases
        Some(words) == \E w \in words : \E x \in ph : w \in PhraseWords[x]
        override == /\ Some({"is 97 a prime number"})
                    /\ Some({"answer with 'yes' or 'no'"})
        kind == question.expected_type
    IN /\ override => kind = "STRING"
       /\ (~override /\ Some(NumberWords)) => kind = "NUMBER"
       /\ (~override /\ ~Some(NumberWords) /\ Some(YesNoWords)) => kind = "STRING"
       /\ (~override /\ ~Some(NumberWords) /\ ~Some(YesNoWords) /\ Some(JsonWords))
            => kind = "JSON"
       /\ (~override /\ ~Some(NumberWords) /\ ~Some(YesNoWords) /\ ~Some(JsonWords)
             /\ Some(FileWords)) => kind = "BASE64_FILE"
       /\ ~Some(NumberWords \cup YesNoWords \cup JsonWords \cup FileWords)
            => kind = "STRING"
       /\ ph = {"Is 97 a prime number?", "Answer with 'yes' or 'no'."} => kind = "STRING"

\* A text with a numeric-intent word and a JSON word was classified NUMBER.
C19_Witness ==
  /\ full_text.phrases = {"What is the sum of the values?", "Return a JSON object."}
  /\ question.expected_type = "NUMBER"

C40_SubmitTargetNotResource ==
  question # NoQuestion =>
    /\ question.submit_url # BaseUrl =>
         question.submit_url \notin Range(question.resources)
    /\ \A i, j \in 1..Len(question.resources) :
         i # j => question.resources[i] # question.resources[j]

\* --------------------------- acquisition, hidden payloads and API headers

MaxScripts == 1
MaxLiterals == 2
MaxLines == 2

\* base64.b64decode(literal).decode('utf-8'), for the quoted string literals
\* of a script it accepts: the base64 text of "Hello" (8 characters) and that
\* of "Post to /submit now" (28 characters).
B64Decode == "SGVsbG8=" :> "Hello" @@ "UG9zdCB0byAvc3VibWl0IG5vdw==" :> "Post to /submit now"

\* The literals r"['\"]([A-Za-z0-9+/=]{20,}={0,2})['\"]" matches: the longer
\* one above and 26 characters of the base64 alphabet that b64decode rejects.
LongLiterals == {"UG9zdCB0byAvc3VibWl0IG5vdw==", "abcdefghijklmnopqrstuvwxyz"}

\* The pages served: a body text and inline script blocks.  The body of a
\* script block is a sequence of quoted string literals, each the argument of
\* an atob( ) call or not.
Markups ==
  LET ScriptTokens == [lit : DOMAIN B64Decode \cup LongLiterals, call : BOOLEAN]
      ScriptBlocks == SeqsUpTo(ScriptTokens, MaxLiterals) \ {<<>>}
  IN [text : {"What is the secret code?"}, scripts : SeqsUpTo(ScriptBlocks, MaxScripts)]

\* BrowserManager.get_page_content: the script evaluated in the page keeps
\* the body of a script block when it contains "atob(" or "base64".
primary_get_page_content(m) ==
  [path |-> "primary",
   visible_text |-> <<m.text>>,
   scripts |-> Flatten(SelectSeq(m.scripts,
                 LAMBDA block : \E i \in 1..Len(block) : block[i].call))]

\* BrowserFallback.get_page_content: of the nodes of the parsed page the
\* script and style nodes are decomposed (removed from the tree), the visible
\* text is read, and then the script nodes are looked up in what is left of
\* the tree.
fallback_get_page_content(m) ==
  LET parsed == <<[tag |-> "p", string |-> <<m.text>>]>>
                \o [i \in 1..Len(m.scripts) |-> [tag |-> "script", string |-> m.scripts[i]]]
      soup == SelectSeq(parsed, LAMBDA node : node.tag \notin {"script", "style"})
      scripts == SelectSeq(soup, LAMBDA node : node.tag = "script")
  IN [path |-> "fallback",
      visible_text |-> Flatten([i \in 1..Len(soup) |-> soup[i].string]),
      scripts |-> Flatten([i \in 1..Len(scripts) |-> scripts[i].string])]

\* The try blocks of extract_base64_content: the matches that decode, decoded.
Decodings(matches) ==
  LET ok == SelectSeq(matches, LAMBDA t : t.lit \in DOMAIN B64Decode)
  IN [i \in 1..Len(ok) |-> B64Decode[ok[i].lit]]

\* QuizParser.extract_base64_content: the matches of the atob pattern, then
\* the matches of the quoted-string pattern, each list in text order.
extract_base64_content(script_content) ==
  Decodings(SelectSeq(script_content, LAMBDA t : t.call))
  \o Decodings(SelectSeq(script_content, LAMBDA t : t.lit \in LongLiterals))

\* extract_api_headers: the patterns of each header name in their listed
\* order, each pattern as the lines of instruction text it matches and what
\* it captures there (matching ignores case).
HeaderPatterns ==
  "Authorization" :>
    << ("Authorization: tok1" :> "tok1" @@ "Authorization: Bearer abc" :> "Bearer abc"
          @@ "Use Authorization: tok3" :> "tok3"),
       ("Use Authorization: tok3" :> "tok3"),
       ("Authorization: Bearer abc" :> "abc" @@ "Bearer xyz" :> "xyz"),
       ("Authorization header: tok2" :> "tok2") >> @@
  "X-API-Key" :>
    << ("X-API-Key: k1" :> "k1"),
       ("X-API-Key: k1" :> "k1" @@ "API key: k2" :> "k2" @@ "Use API key: k3" :> "k3"),
       ("Use API key: k3" :> "k3") >> @@
  "Content-Type" :>
    << ("Content-Type: text/csv" :> "text/csv") >>

\* Instruction texts: lines that name a header.
HeaderTexts ==
  LET lines == UNION {UNION {DOMAIN HeaderPatterns[n][i] : i \in 1..Len(HeaderPatterns[n])} :
                        n \in DOMAIN HeaderPatterns}
  IN SeqsUpTo(lines, MaxLines) \ {<<>>}

\* re.findall(pattern, text, re.IGNORECASE): the captures in text order.
findall(pattern, text) ==
  LET hit == SelectSeq(text, LAMBDA line : line \in DOMAIN pattern)
  IN [i \in 1..Len(hit) |-> pattern[hit[i]]]

\* extract_api_headers: the loop over the patterns of one header name.  The
\* break leaves the loop over the matches of a pattern, not the loop over the
\* patterns: every pattern that matches stores its first match, prefixed with
\* "Bearer " when the name is Authorization and the lowercased match does not
\* contain "bearer".
RECURSIVE ScanHeaderPatterns(_, _, _, _, _)
ScanHeaderPatterns(name, patterns, i, text, value) ==
  IF i > Len(patterns) THEN value
  ELSE LET matches == findall(patterns[i], text)
           stored == IF name = "Authorization" /\ matches[1] # "Bearer abc"
                       THEN "Bearer " \o matches[1]
                       ELSE matches[1]
       IN ScanHeaderPatterns(name, patterns, i + 1, text,
                             IF matches # <<>> THEN stored ELSE value)

\* QuizParser.extract_api_headers ("" stands for a name with no entry; no
\* capture is empty).
extract_api_headers(text) ==
  LET value == [n \in DOMAIN HeaderPatterns |->
                  ScanHeaderPatterns(n, HeaderPatterns[n], 1, text, "")]
  IN [n \in {k \in DOMAIN HeaderPatterns : value[k] # ""} |-> value[n]]

\* A page as served, or an instruction text to scan for headers.
InitPage ==
  /\ \/ markup \in Markups /\ api_text = <<>>
     \/ markup = [text |-> "", scripts |-> <<>>] /\ api_text \in HeaderTexts
  /\ page_content = [path |-> "none", visible_text |-> <<>>, scripts |-> <<>>]
  /\ instructions = [done |-> FALSE, decoded |-> <<>>, heading |-> FALSE]
  /\ api_headers = [done |-> FALSE, headers |-> EmptyMap]
  /\ IdleChain
  /\ IdleCoerce
  /\ IdleServer
  /\ IdleParser
  /\ IdleSum
  /\ IdleBrowser
  /\ IdleLlm
  /\ IdleFetcher

\* _get_question_content: the page is acquired through the primary path or,
\* when that raised, through the fallback path.
GetQuestionContent ==
  /\ markup.text # ""
  /\ page_content.path = "none"
  /\ \E primary_raised \in BOOLEAN :
       page_content' = IF primary_raised
                         THEN fallback_get_page_content(markup)
                         ELSE primary_get_page_content(markup)
  /\ UNCHANGED <<markup, instructions, api_text, api_headers>>
  /\ UNCHANGED besidePage

\* parse_page_content: the hidden payloads of the script text are decoded and
\* a non-empty result goes under the "Decoded Instructions" heading.
DecodeInstructions ==
  /\ page_content.path # "none"
  /\ ~instructions.done
  /\ LET base64_content == extract_base64_content(page_content.scripts)
     IN instructions' = [done |-> TRUE, decoded |-> base64_content,
                         heading |-> base64_content # <<>>]
  /\ UNCHANGED <<markup, page_content, api_text, api_headers>>
  /\ UNCHANGED besidePage

\* _process_resources: the headers are extracted from the instruction text.
ExtractApiHeaders ==
  /\ api_text # <<>>
  /\ ~api_headers.done
  /\ api_headers' = [done |-> TRUE, headers |-> extract_api_headers(api_text)]
  /\ UNCHANGED <<markup, page_content, instructions, api_text>>
  /\ UNCHANGED besidePage

NextPage ==
  \/ GetQuestionContent
  \/ DecodeInstructions
  \/ ExtractApiHeaders

SpecPage == InitPage /\ [][NextPage]_vars

\* C21  Hidden payload decoding: the decoded instructions are the decodings of
\* all atob literal arguments in order of occurrence, followed by the
\* decodings of all bare quoted base64 strings of at least 20 characters (the
\* quoted strings that are no atob argument) in order of occurrence; a match
\* that fails to decode is skipped; a non-empty result goes under the
\* "Decoded Instructions" heading; atob('SGVsbG8=') yields "Hello".
C21_HiddenPayloadDecoding ==
  instructions.done =>
    LET script == page_content.scripts IN
      /\ instructions.decoded =
           Decodings(SelectSeq(script, LAMBDA t : t.call))
           \o Decodings(SelectSeq(script, LAMBDA t : ~t.call /\ t.lit \in LongLiterals))
      /\ instructions.heading <=> (instructions.decoded # <<>>)
      /\ script = <<[lit |-> "SGVsbG8=", call |-> TRUE]>>
           => instructions.decoded = <<"Hello">>

\* C29  Header extraction, first match wins: extract_api_headers returns at
\* most one value per header name, the one of the first match found trying
\* the header's patterns in their listed order and the matches of a pattern
\* in text order; a later pattern or match never replaces it; an
\* Authorization value without "bearer" in it is prefixed with "Bearer ".
C29_FirstMatchWins ==
  api_headers.done =>
    \A n \in DOMAIN HeaderPatterns :
      LET patterns == HeaderPatterns[n]
          hits == {i \in 1..Len(patterns) : findall(patterns[i], api_text) # <<>>}
      IN IF hits = {} THEN n \notin DOMAIN api_headers.headers
         ELSE LET first == CHOOSE i \in hits : \A j \in hits : i <= j
                  match == findall(patterns[first], api_text)[1]
              IN /\ n \in DOMAIN api_headers.headers
                 /\ api_headers.headers[n] =
                      (IF n = "Authorization" /\ match # "Bearer abc"
                         THEN "Bearer " \o match
                         ELSE match)

\* C30  Fallback acquisition returns script text: the page content of the
\* fallback path carries the raw text of the page's inline script blocks in
\* its script-text field and the body text without script text as visible
\* text, so that the extractor decodes the hidden payloads of those scripts.
C30_FallbackScriptText ==
  page_content.path = "fallback" =>
    /\ page_content.scripts = Flatten(markup.scripts)
    /\ page_content.visible_text = <<markup.text>>
    /\ instructions.done =>
         instructions.decoded = extract_base64_content(Flatten(markup.scripts))

\* ---------------------------------------------------- the primary acquirer

\* Page fetches one chain makes through the primary acquirer.
MaxFetches == 3

NoHandles == [playwright |-> FALSE, browser |-> FALSE, context |-> FALSE,
              setup_done |-> FALSE]
NoContent == [html |-> "", visible_text |-> "", scripts |-> ""]

\* BrowserManager.close: the closes run inside one try block and the finally
\* clause clears the three handles and the flag whatever the closes did.
close(m) == NoHandles

\* BrowserManager.setup.  fail names the step that raises: the platform
\* check, the start of the driver, the launch of the browser, the creation of
\* the context; "none" when nothing raises.  A failing step inside the try
\* block makes setup call close() and raise again.
SetupFailures == {"none", "platform", "start", "launch", "new_context"}
setup_always(m, fail) ==
  IF fail = "platform" THEN [manager |-> m, raised |-> TRUE, browsers |-> 0, released |-> 0]
  ELSE IF fail = "none"
    THEN [manager |-> [playwright |-> TRUE, browser |-> TRUE, context |-> TRUE,
                       setup_done |-> TRUE],
          raised |-> FALSE, browsers |-> 1, released |-> 0]
  ELSE [manager |-> close(m), raised |-> TRUE,
        browsers |-> (IF fail = "new_context" THEN 1 ELSE 0),
        released |-> (IF fail = "new_context" THEN 1 ELSE 0)]
setup(m, fail) ==
  IF m.setup_done THEN [manager |-> m, raised |-> FALSE, browsers |-> 0, released |-> 0]
  ELSE IF fail = "platform" THEN [manager |-> m, raised |-> TRUE, browsers |-> 0, released |-> 0]
  ELSE IF fail = "none"
    THEN [manager |-> [playwright |-> TRUE, browser |-> TRUE, context |-> TRUE,
                       setup_done |-> TRUE],
          raised |-> FALSE, browsers |-> 1, released |-> 0]
  ELSE [manager |-> close(m), raised |-> TRUE,
        browsers |-> (IF fail = "new_context" THEN 1 ELSE 0),
        released |-> (IF fail = "new_context" THEN 1 ELSE 0)]

\* The outcome of one step on the page: it returns, it raises Playwright's
\* TimeoutError, it raises something else.
StepOutcomes == {"ok", "timeout", "error"}

\* get_page_content, the handler of PlaywrightTimeoutError: the loaded markup
\* is captured when a page is open, and the timeout is raised again when
\* there is no page or that capture raises too.
on_timeout_raise(page_open, salvage_ok) == "timeout"
on_timeout(page_open, salvage_ok) ==
  IF page_open /\ salvage_ok THEN "salvage" ELSE "timeout"

\* get_page_content after setup: new_page, then navigation (goto), then the
\* capture (content and evaluate); the first step that raises ends the try
\* block.  The finally clause closes the page when one was opened and
\* swallows what that close raises.
page_steps(new_page, nav, capture, salvage_ok) ==
  LET first == IF new_page # "ok" THEN new_page
               ELSE IF nav # "ok" THEN nav
               ELSE capture
      opened == IF new_page = "ok" THEN 1 ELSE 0
      outcome == IF first = "ok" THEN "ok"
                 ELSE IF first = "timeout" THEN on_timeout(opened = 1, salvage_ok)
                 ELSE "error"
  IN [outcome |-> outcome,
      opened |-> opened,
      closed |-> opened,
      timed_out |-> (first = "timeout"),
      salvage_ok |-> (first = "timeout" /\ opened = 1 /\ salvage_ok),
      content |-> IF outcome = "ok"
                    THEN [html |-> "rendered", visible_text |-> "body", scripts |-> "payload"]
                  ELSE IF outcome = "salvage"
                    THEN [html |-> "loaded", visible_text |-> "", scripts |-> ""]
                  ELSE NoContent]

InitBrowser ==
  /\ manager = NoHandles
  /\ acquisition = [outcome |-> "none", was_setup |-> FALSE, opened |-> 0, closed |-> 0,
                    timed_out |-> FALSE, salvage_ok |-> FALSE, content |-> NoContent]
  /\ launches = [fetches |-> 0, browsers |-> 0, released |-> 0]
  /\ torn_down = FALSE
  /\ IdleChain
  /\ IdleCoerce
  /\ IdleServer
  /\ IdleParser
  /\ IdleSum
  /\ IdlePage
  /\ IdleFetcher
  /\ IdleLlm

\* BrowserManager.get_page_content, called by _get_question_content for each
\* page of the chain.
GetPageContent ==
  /\ ~torn_down
  /\ launches.fetches < MaxFetches
  /\ \E fail \in SetupFailures, new_page \in StepOutcomes, nav \in StepOutcomes,
        capture \in StepOutcomes, salvage_ok \in BOOLEAN :
       LET s == setup(manager, fail)
           steps == page_steps(new_page, nav, capture, salvage_ok)
       IN /\ manager' = s.manager
          /\ launches' = [fetches |-> launches.fetches + 1,
                          browsers |-> launches.browsers + s.browsers,
                          released |-> launches.released + s.released]
          /\ acquisition' =
               IF s.raised
                 THEN [outcome |-> "setup_failed", was_setup |-> manager.setup_done,
                       opened |-> 0, closed |-> 0, timed_out |-> FALSE,
                       salvage_ok |-> FALSE, content |-> NoContent]
                 ELSE [was_setup |-> manager.setup_done] @@ steps
  /\ UNCHANGED torn_down
  /\ UNCHANGED besideBrowser

\* _cleanup: BrowserManager.close at the end of the chain.
CloseBrowser ==
  /\ ~torn_down
  /\ manager' = close(manager)
  /\ launches' = [launches EXCEPT !.released = @ + (IF manager.browser THEN 1 ELSE 0)]
  /\ torn_down' = TRUE
  /\ UNCHANGED acquisition
  /\ UNCHANGED besideBrowser

NextBrowser ==
  \/ GetPageContent
  \/ CloseBrowser

SpecBrowser == InitBrowser /\ [][NextBrowser]_vars

\* C31  Timeout salvage on the primary path: a navigation or capture that
\* times out makes get_page_content return the loaded markup with empty
\* visible text and empty script text when that markup can be captured, and
\* raise the timeout only when it cannot; whatever the outcome, a page that
\* was opened has been closed when the call ends.
C31_TimeoutSalvage ==
  /\ acquisition.opened \in {0, 1}
  /\ acquisition.closed = acquisition.opened
  /\ (acquisition.timed_out /\ acquisition.opened = 1) =>
       IF acquisition.salvage_ok
         THEN /\ acquisition.outcome = "salvage"
              /\ acquisition.content = [html |-> "loaded", visible_text |-> "", scripts |-> ""]
         ELSE acquisition.outcome = "timeout"
  /\ acquisition.outcome = "timeout" =>
       acquisition.timed_out /\ ~acquisition.salvage_ok
  /\ acquisition.outcome = "salvage" => acquisition.timed_out
  /\ acquisition.outcome \in {"ok", "salvage", "timeout", "error"} =>
       (acquisition.opened = 0 => acquisition.outcome \in {"timeout", "error"})

\* A timeout was salvaged and the page closed.
C31_Witness ==
  /\ acquisition.outcome = "salvage"
  /\ acquisition.timed_out
  /\ acquisition.opened = 1
  /\ acquisition.closed = 1

\* C32  Browsing session reuse: while setup has succeeded the handles stay
\* set and later fetches launch nothing; a fetch launches at most one browser
\* and only when setup had not succeeded; a failed setup leaves no handle set,
\* so the next fetch runs setup again; after teardown no handle is set and
\* the flag is cleared.
C32_SessionReuse ==
  /\ manager.setup_done =>
       manager.playwright /\ manager.browser /\ manager.context
  /\ ~manager.setup_done => manager = NoHandles
  /\ launches.browsers - launches.released = (IF manager.setup_done THEN 1 ELSE 0)
  /\ launches.browsers <= launches.fetches
  /\ (acquisition.was_setup /\ ~torn_down) =>
       manager.setup_done /\ acquisition.outcome # "setup_failed"
  /\ acquisition.outcome = "setup_failed" => manager = NoHandles \/ torn_down
  /\ (acquisition.outcome \notin {"none", "setup_failed"} /\ ~torn_down) =>
       manager.setup_done
  /\ torn_down => manager = NoHandles

\* Three fetches ran on one browser, and teardown released it.
C32_Witness ==
  /\ torn_down
  /\ launches = [fetches |-> 3, browsers |-> 1, released |-> 1]
  /\ acquisition.was_setup
  /\ manager = NoHandles

\* --------------------------------------- the reasoning engine's responses

\* Response texts of a backend.
ReplyTexts ==
  {"0", "42", "2.5", "none", "yes", "false", "", "a", "ab", " a ",
   "{\"a\": 1}", "here {\"a\": 1} ok", "{bad}"}

\* What the backend's response carries as prompt_feedback: no such
\* attribute, an empty one, one whose block_reason is None, one with a block
\* reason.
Feedbacks == {"absent", "empty", "no_block", "blocked"}

\* text.strip()
Stripped(text) == IF text = " a " THEN "a" ELSE text

\* The NUMBER branch: the first match of -?\d+\.?\d* in the text as a float,
\* an int when the float is whole; 0 when nothing matches.
ReplyNumbers ==
  "0" :> Val("int", "0") @@ "42" :> Val("int", "42") @@ "2.5" :> Val("float", "2.5") @@
  "{\"a\": 1}" :> Val("int", "1") @@ "here {\"a\": 1} ok" :> Val("int", "1")

\* re.search(r'\{.*\}', text, re.DOTALL).group(), for the texts with a match,
\* and json.loads of the spans that are JSON.
JsonSpans ==
  "{\"a\": 1}" :> "{\"a\": 1}" @@ "here {\"a\": 1} ok" :> "{\"a\": 1}" @@
  "{bad}" :> "{bad}"
SpanLoads == "{\"a\": 1}" :> Val("dict", "{'a': 1}")

ErrorMarker(why) == Val("dict", "{'error': '" \o why \o "'}")

\* _parse_llm_response binds the name re by an import statement inside its
\* NUMBER branch, which makes re a local name of the whole function: in the
\* other branches the name is unbound.
re_bound(k) == k = "NUMBER"

\* LLMEngine._parse_llm_response: the answer.  In the JSON branch a read of
\* the unbound name raises inside the inner try block, whose bare except
\* gives the "Invalid JSON format" marker.
parse_llm_response(text, k) ==
  LET cleaned_text == Stripped(text)
  IN CASE k = "NUMBER" ->
            IF cleaned_text \in DOMAIN ReplyNumbers THEN ReplyNumbers[cleaned_text]
            ELSE Val("int", "0")
       [] k = "BOOLEAN" ->
            Val("bool", IF cleaned_text \in {"true", "yes", "1", "correct"}
                          THEN "True" ELSE "False")
       [] k = "JSON" ->
            IF ~re_bound(k) THEN ErrorMarker("Invalid JSON format")
            ELSE IF cleaned_text \notin DOMAIN JsonSpans
              THEN ErrorMarker("No valid JSON found")
            ELSE IF JsonSpans[cleaned_text] \in DOMAIN SpanLoads
              THEN SpanLoads[JsonSpans[cleaned_text]]
            ELSE ErrorMarker("Invalid JSON format")
       [] OTHER -> Val("str", cleaned_text)

\* `not answer`: the values bool() takes for false.
Falsy(a) == IF a.t = "str" THEN a.s = "" ELSE a.s \in FalsyTexts

\* LLMEngine._calculate_confidence, in tenths.
calculate_confidence(feedback, a) ==
  LET base == 7
      bonus == IF feedback = "no_block" THEN 2 ELSE 0
      malus == IF Falsy(a) \/ (a.t = "str" /\ Len(Stripped(a.s)) < 2) THEN 3 ELSE 0
  IN Max(1, Min(10, base + bonus - malus))

\* LLMEngine._fallback_reasoning: the confidence, in tenths.
fallback_confidence(q, tokens) ==
  IF q \in WithSum /\ q \in WithValue /\ FindNumbers(tokens) # <<>> THEN 3 ELSE 1

\* LLMEngine.validate_answer: response.text.strip().lower() of the replies.
ValidationReplies == {"true", " True ", "YES", "yes", "false", "no", "1", "correct", "true.", ""}
TrimLower(reply) ==
  IF reply = " True " THEN "true" ELSE IF reply = "YES" THEN "yes" ELSE reply
validate_answer_strict(raised, reply) ==
  ~raised /\ TrimLower(reply) \in {"true", "yes"}
validate_answer(raised, reply) ==
  IF raised THEN TRUE ELSE TrimLower(reply) \in {"true", "yes"}

\* The expected kinds the parser gives a question, over every page text.
ParsedKinds == {determine_answer_type(phrases) : phrases \in SUBSET Phrases}

\* Contexts a request carries.
LlmContexts ==
  {<<Word("No external resources required.")>>}
  \cup {process_resources(r) : r \in JsonResources}

InitLlm ==
  /\ llm_call \in [expected_type : ParsedKinds, text : ReplyTexts, feedback : Feedbacks,
                   fails : {FALSE}, question : {""},
                   tokens : {<<Word("No external resources required.")>>}]
                  \cup
                  [expected_type : {determine_answer_type({"What is the sum of the values?"})},
                   text : {""}, feedback : {"absent"},
                   fails : {TRUE}, question : SumQuestions, tokens : LlmContexts]
                  \cup
                  {[expected_type |-> determine_answer_type({q}), text |-> "",
                    feedback |-> "absent", fails |-> TRUE, question |-> q,
                    tokens |-> <<Word("No external resources required.")>>] : q \in Phrases}
  /\ llm_response = [via |-> "none", answer |-> NoValue, confidence |-> 0]
  /\ llm_final = NoValue
  /\ validation = [done |-> FALSE, raised |-> FALSE, reply |-> "", result |-> FALSE]
  /\ IdleChain
  /\ IdleCoerce
  /\ IdleServer
  /\ IdleParser
  /\ IdleSum
  /\ IdlePage
  /\ IdleFetcher
  /\ IdleBrowser

\* reason_about_question: the first backend that responds gives the answer
\* and its confidence; when the last backend of the window fails the
\* heuristic fallback answers.
ReasonAboutQuestion ==
  /\ llm_response.via = "none"
  /\ llm_response' =
       IF llm_call.fails
         THEN [via |-> "fallback",
               answer |-> fallback_reasoning(llm_call.question, llm_call.tokens,
                                             llm_call.expected_type),
               confidence |-> fallback_confidence(llm_call.question, llm_call.tokens)]
         ELSE LET result == parse_llm_response(llm_call.text, llm_call.expected_type)
              IN [via |-> "backend",
                  answer |-> result,
                  confidence |-> calculate_confidence(llm_call.feedback, result)]
  /\ UNCHANGED <<llm_call, llm_final, validation>>
  /\ UNCHANGED besideLlm

\* _reason_about_answer and _submit_answer: the answer of the response is
\* enforced to the expected kind and put into the payload.
SubmitFinalAnswer ==
  /\ llm_response.via # "none"
  /\ llm_final = NoValue
  /\ \E has_is_integer \in BOOLEAN :
       llm_final' = submit_final_answer(
                      enforce_answer_type(llm_response.answer, llm_call.expected_type,
                                          has_is_integer),
                      llm_call.expected_type)
  /\ UNCHANGED <<llm_call, llm_response, validation>>
  /\ UNCHANGED besideLlm

\* validate_answer: the primary backend is asked; raised tells whether the
\* call or the read of response.text raised.
ValidateAnswer ==
  /\ llm_response.via # "none"
  /\ ~validation.done
  /\ \E raised \in BOOLEAN, reply \in ValidationReplies :
       validation' = [done |-> TRUE, raised |-> raised,
                      reply |-> (IF raised THEN "" ELSE reply),
                      result |-> validate_answer(raised, reply)]
  /\ UNCHANGED <<llm_call, llm_response, llm_final>>
  /\ UNCHANGED besideLlm

NextLlm ==
  \/ ReasonAboutQuestion
  \/ SubmitFinalAnswer
  \/ ValidateAnswer

SpecLlm == InitLlm /\ [][NextLlm]_vars

\* C33  Confidence scoring: every returned response has a confidence within
\* [0.1, 1.0]; a backend answer gets 0.7, plus 0.2 when no content-safety
\* block is reported, minus 0.3 exactly when the answer is empty or a string
\* shorter than 2 characters, clamped; the heuristic fallback gives 0.3 for a
\* summed answer and 0.1 for the default answer.
C33_ConfidenceScoring ==
  /\ llm_response.via # "none" => llm_response.confidence \in 1..10
  /\ llm_response.via = "backend" =>
       LET a == llm_response.answer
           empty == a.s \in {"", "{}", "[]"}
           short == a.t = "str" /\ Len(Stripped(a.s)) < 2
       IN llm_response.confidence =
            Max(1, Min(10, 7 + (IF llm_call.feedback = "no_block" THEN 2 ELSE 0)
                             - (IF empty \/ short THEN 3 ELSE 0)))
  /\ llm_response.via = "fallback" =>
       LET summed == /\ llm_call.question \in WithSum
                     /\ llm_call.question \in WithValue
                     /\ FindNumbers(llm_call.tokens) # <<>>
       IN /\ llm_response.confidence = (IF summed THEN 3 ELSE 1)
          /\ ~summed => llm_response.answer \in {Val("str", "Unknown"), Val("int", "0")}

\* C34  JSON response parsing: for expected kind JSON the answer is the JSON
\* value of the span from the first '{' to the last '}' when that span is
\* valid JSON, and a structured error marker otherwise.
C34_JsonResponseParsing ==
  (llm_response.via = "backend" /\ llm_call.expected_type = "JSON") =>
    LET cleaned_text == Stripped(llm_call.text)
        valid == cleaned_text \in DOMAIN JsonSpans
                 /\ JsonSpans[cleaned_text] \in DOMAIN SpanLoads
    IN IF valid
         THEN llm_response.answer = SpanLoads[JsonSpans[cleaned_text]]
         ELSE llm_response.answer \in {ErrorMarker("No valid JSON found"),
                                       ErrorMarker("Invalid JSON format")}

\* C36  Advisory validation: validate_answer gives true whenever the backend
\* call or the read of its response raised, and on a call that succeeded
\* exactly when the trimmed lowercased reply is "true" or "yes"; the answer
\* and the confidence of the response are what they were before validation.
C36_AdvisoryValidation ==
  validation.done =>
    /\ validation.raised => validation.result
    /\ ~validation.raised =>
         (validation.result <=> TrimLower(validation.reply) \in {"true", "yes"})
    /\ llm_response.via # "none"

\* A validation call that raised gave true.
C36_Witness ==
  /\ validation.done
  /\ validation.raised
  /\ validation.result
  /\ llm_response.via = "backend"

\* ------------------------------------------------------ the resource fetcher

\* What the declared content type contains, and how the URL ends.
ContentTypes == {"csv", "pdf", "json", "spreadsheet", "image", "html", "xml", "text", ""}
Extensions == {".csv", ".pdf", ".json", ".xlsx", ".png", ".bmp", ".html", ".xml", ".txt", ""}

\* _auto_detect_process: the second pass, by extension alone.
auto_detect_process(ext) ==
  CASE ext = ".xlsx" -> "excel"
    [] ext = ".csv" -> "csv"
    [] ext = ".pdf" -> "pdf"
    [] ext = ".json" -> "json"
    [] ext \in {".png", ".bmp"} -> "image"
    [] OTHER -> "text"

\* fetch_resource: the processor the content type or the extension selects.
dispatch(content_type, ext) ==
  CASE content_type = "csv" \/ ext = ".csv" -> "csv"
    [] content_type = "pdf" \/ ext = ".pdf" -> "pdf"
    [] content_type = "json" \/ ext = ".json" -> "json"
    [] content_type = "spreadsheet" \/ ext = ".xlsx" -> "excel"
    [] content_type = "image" \/ ext = ".png" -> "image"
    [] content_type = "html" \/ ext = ".html" -> "html"
    [] content_type = "xml" \/ ext = ".xml" -> "xml"
    [] content_type = "text" \/ ext = ".txt" -> "text"
    [] OTHER -> auto_detect_process(ext)

\* The per-type processors: the metadata type and whether the metadata has
\* an 'error' entry.  fails tells that the processor's main path raised (for
\* _process_text: the UTF-8 decode, the only step of it that can).  Each
\* processor catches it; _process_text answers from its latin-1 branch,
\* whose metadata has an 'encoding' entry and no 'error' entry.
process(processor, fails) ==
  IF ~fails THEN [raised |-> FALSE, type |-> processor, error |-> FALSE]
  ELSE CASE processor \in {"csv", "json", "html", "xml"} ->
              [raised |-> FALSE, type |-> "text", error |-> TRUE]
         [] processor \in {"excel", "pdf", "image"} ->
              [raised |-> FALSE, type |-> processor, error |-> TRUE]
         [] OTHER -> [raised |-> FALSE, type |-> "text", error |-> FALSE]

\* ResourceFetcher.fetch_resource: a request that fails (the GET, an error
\* status at raise_for_status, the read of the body) raises to the caller.
fetch_resource(call) ==
  IF call.http # "ok"
    THEN [done |-> TRUE, raised |-> TRUE, processor |-> "none", type |-> "none",
          error |-> FALSE]
    ELSE LET processor == dispatch(call.content_type, call.ext)
         IN [done |-> TRUE, processor |-> processor] @@ process(processor, call.fails)

InitFetcher ==
  /\ fetch_call \in [http : {"ok", "network_error", "error_status", "read_error"},
                     content_type : ContentTypes, ext : Extensions, fails : BOOLEAN]
  /\ fetch_result = [done |-> FALSE, raised |-> FALSE, processor |-> "none",
                     type |-> "none", error |-> FALSE]
  /\ fetch_session = FALSE
  /\ IdleChain
  /\ IdleCoerce
  /\ IdleServer
  /\ IdleParser
  /\ IdleSum
  /\ IdlePage
  /\ IdleBrowser
  /\ IdleLlm

\* _process_resources: one fetch_resource call.
FetchResourceCall ==
  /\ ~fetch_result.done
  /\ fetch_session' = TRUE
  /\ fetch_result' = fetch_resource(fetch_call)
  /\ UNCHANGED fetch_call
  /\ UNCHANGED besideFetcher

\* _cleanup: ResourceFetcher.close.
CloseFetcher ==
  /\ fetch_session
  /\ fetch_session' = FALSE
  /\ UNCHANGED <<fetch_call, fetch_result>>
  /\ UNCHANGED besideFetcher

NextFetcher ==
  \/ FetchResourceCall
  \/ CloseFetcher

SpecFetcher == InitFetcher /\ [][NextFetcher]_vars

\* C35  Materializer failure split: fetch_resource raises exactly when the
\* HTTP request fails or returns an error status; with the body fetched, a
\* failure inside the selected processor does not raise and the result's
\* metadata carries an error tag.
C35_FailureSplit ==
  fetch_result.done =>
    /\ fetch_result.raised <=> fetch_call.http # "ok"
    /\ (fetch_call.http = "ok" /\ fetch_call.fails) =>
         ~fetch_result.raised /\ fetch_result.error

\* C39  No BOOLEAN questions: the expected kind the parser gives is NUMBER,
\* STRING, JSON or BASE64_FILE for every page text, never BOOLEAN; no
\* response is parsed and no answer is coerced under BOOLEAN, and no boolean
\* value is put into a payload.
C39_NoBooleanQuestions ==
  /\ ParsedKinds \subseteq {"NUMBER", "STRING", "JSON", "BASE64_FILE"}
  /\ llm_call.expected_type \in ParsedKinds
  /\ llm_call.expected_type # "BOOLEAN"
  /\ llm_response.answer.t # "bool"
  /\ llm_final.t # "bool"

\* The reply "yes" to a yes/no question went into the payload as the string.
C39_Witness ==
  /\ llm_call.expected_type = "STRING"
  /\ llm_call.text = "yes"
  /\ llm_response.via = "backend"
  /\ llm_final = Val("str", "yes")

====
